---- MODULE Spec2Model ----
(***************************************************************************)
(* A model of fprime-python-model: the fpp-to-json translator              *)
(* (fpp_to_json_translator.py), the AST node identities (fpp_ast_node.py), *)
(* the location registry (fpp_locations.py) and the qualified-identifier   *)
(* builder (fpp_ast.py).                                                   *)
(*                                                                         *)
(* Python values are records tagged by the field t:                        *)
(*   None            [t |-> "None"]                                        *)
(*   str             [t |-> "str",  str  |-> "abc"]                        *)
(*   int             [t |-> "int",  int  |-> 5]                            *)
(*   bool            [t |-> "bool", bool |-> TRUE]                         *)
(*   list            [t |-> "list", items |-> <<v1, ...>>]                 *)
(*   tuple           [t |-> "tuple", tup |-> <<v1, ...>>]                  *)
(*   dict            [t |-> "dict", kv |-> << <<"key", v>>, ... >>]        *)
(*                   (insertion order kept, as Python keeps it)            *)
(*   an Enum member  [t |-> "enum", enum |-> "Binop.ADD"]                  *)
(*   a dataclass     [t |-> "<class name>", <field> |-> <value>, ...]      *)
(* and a call that raises yields                                           *)
(*   [t |-> "raise", exc |-> "<exception class>", arg |-> "<argument>"].   *)
(***************************************************************************)
EXTENDS Integers, Sequences, FiniteSets, TLC

VARIABLES
    _map,       \* Locations._map: AstId -> Location
    _next_id,   \* AstNode._next_id
    call,       \* the last call made: [fn |-> name, arg |-> argument]
    ret,        \* what that call returned, or the exception it raised
    node_list,  \* the caller's list object handed to the identifier builder
    printed,    \* what the last call printed to standard output
    loaded      \* the location-map file of the last completed bulk load, as
                \* long as nothing else has written to the map (history)

vars == <<_map, _next_id, call, ret, node_list, printed, loaded>>

----------------------------------------------------------------------------
(* Python values *)

None == [t |-> "None"]
PyStr(s) == [t |-> "str", str |-> s]
PyInt(n) == [t |-> "int", int |-> n]
PyBool(b) == [t |-> "bool", bool |-> b]
PyList(items) == [t |-> "list", items |-> items]
PyTuple(items) == [t |-> "tuple", tup |-> items]
PyDict(kv) == [t |-> "dict", kv |-> kv]
Enum(member) == [t |-> "enum", enum |-> member]
Raise(exc, arg) == [t |-> "raise", exc |-> exc, arg |-> arg]

IsRaise(v) == v.t = "raise"

\* The first exception among the values of args, which are written in the
\* order Python evaluates them; val when none of them raised.
Try(args, val) ==
    LET bad == {i \in 1..Len(args) : IsRaise(args[i])}
    IN  IF bad = {} THEN val
        ELSE args[CHOOSE i \in bad : \A j \in bad : i <= j]

\* bool(v): Python's truth value
Truthy(v) ==
    CASE v.t = "None" -> FALSE
      [] v.t = "str" -> v.str # ""
      [] v.t = "int" -> v.int # 0
      [] v.t = "bool" -> v.bool
      [] v.t = "list" -> v.items # <<>>
      [] v.t = "tuple" -> v.tup # <<>>
      [] v.t = "dict" -> v.kv # <<>>
      [] OTHER -> TRUE

HasKey(d, k) == \E i \in 1..Len(d.kv) : d.kv[i][1] = k
Lookup(d, k) == d.kv[CHOOSE i \in 1..Len(d.kv) : d.kv[i][1] = k][2]

\* d[k] for a str key k
GetItem(d, k) ==
    CASE d.t = "raise" -> d
      [] d.t = "dict" -> IF HasKey(d, k) THEN Lookup(d, k) ELSE Raise("KeyError", k)
      [] OTHER -> Raise("TypeError", k)

\* l[i] for an int index i >= 0 (the strings of the model are never indexed)
GetIndex(l, i) ==
    CASE l.t = "raise" -> l
      [] l.t = "list" -> IF i < Len(l.items) THEN l.items[i + 1] ELSE Raise("IndexError", "list")
      [] l.t = "tuple" -> IF i < Len(l.tup) THEN l.tup[i + 1] ELSE Raise("IndexError", "tuple")
      [] l.t = "dict" -> Raise("KeyError", "int")
      [] l.t \in {"None", "int", "bool"} -> Raise("TypeError", "subscript")

\* d.get(k)
DictGet(d, k) ==
    CASE d.t = "raise" -> d
      [] d.t = "dict" -> IF HasKey(d, k) THEN Lookup(d, k) ELSE None
      [] OTHER -> Raise("AttributeError", "get")

\* k in s for two strings: no string of the model holds a key as a proper
\* substring, so containment is equality.
SubStr(k, s) == k = s

\* k in d for a str k: whether the test itself raises, and its value
InRaises(d) == d.t \notin {"dict", "str", "list", "tuple"}
In(k, d) ==
    CASE d.t = "dict" -> HasKey(d, k)
      [] d.t = "str" -> SubStr(k, d.str)
      [] d.t = "list" -> \E i \in 1..Len(d.items) : d.items[i] = PyStr(k)
      [] d.t = "tuple" -> \E i \in 1..Len(d.tup) : d.tup[i] = PyStr(k)
      [] OTHER -> FALSE
InError(d) == IF d.t = "raise" THEN d ELSE Raise("TypeError", "in")

\* The elements a for loop over v visits, as a list; dicts give their keys.
Iter(v) ==
    CASE v.t = "raise" -> v
      [] v.t = "list" -> v
      [] v.t = "tuple" -> PyList(v.tup)
      [] v.t = "dict" -> PyList([i \in 1..Len(v.kv) |-> PyStr(v.kv[i][1])])
      [] v.t \in {"None", "int", "bool"} -> Raise("TypeError", "iter")

\* list(d.keys())[0]
FirstKey(d) ==
    CASE d.t = "raise" -> d
      [] d.t = "dict" -> IF d.kv = <<>> THEN Raise("IndexError", "list") ELSE PyStr(d.kv[1][1])
      [] OTHER -> Raise("AttributeError", "keys")

\* the list of the results rs of a loop's bodies, or the first exception
ListOrRaise(rs) == Try(rs, PyList(rs))

\* [F(x) for x in l], stopping at the first exception
ForEach(F(_), l) ==
    IF IsRaise(Iter(l)) THEN Iter(l)
    ELSE ListOrRaise([i \in 1..Len(Iter(l).items) |-> F(Iter(l).items[i])])

----------------------------------------------------------------------------
(* fpp_ast_node.py *)

\* AstNode(data, _id)
AstNode(data, id) == [t |-> "AstNode", data |-> data, _id |-> id]

\* a create_with_id that takes the id from the counter of fresh ids
create_with_counter(data, id) ==
    IF IsRaise(data) THEN data
    ELSE IF IsRaise(id) THEN id
    ELSE AstNode(data, PyInt(_next_id))

\* AstNode.create_with_id(data, id): the id is the caller's, the counter is
\* not read.  The arguments are evaluated in order, and one that raised is
\* what the call raises.
create_with_id(data, id) ==
    IF IsRaise(data) THEN data
    ELSE IF IsRaise(id) THEN id
    ELSE AstNode(data, id)


----------------------------------------------------------------------------
(* fpp_to_json_translator.py: leaves *)

\* d[k1][k2]
Sub(d, k1, k2) == GetItem(GetItem(d, k1), k2)

\* read_ast_node returns (data, id); the two halves are read in that order
read_data(a_node) == Sub(a_node, "AstNode", "data")
read_id(a_node) == Sub(a_node, "AstNode", "id")
read_ast_node(a_node) ==
    IF IsRaise(read_data(a_node)) THEN read_data(a_node)
    ELSE IF IsRaise(read_id(a_node)) THEN read_id(a_node)
    ELSE PyTuple(<<read_data(a_node), read_id(a_node)>>)

\* data, id = read_ast_node(a_node), and then F(data, id)
WithNode(a_node, F(_, _)) ==
    IF IsRaise(read_ast_node(a_node)) THEN read_ast_node(a_node)
    ELSE F(read_data(a_node), read_id(a_node))

\* A constructor call cls(a1, a2, ...): rec is the object it builds and order
\* names its arguments as the call writes them; an argument that raised is
\* what the call raises, the first one first.
New(rec, order) ==
    LET bad == {i \in 1..Len(order) : IsRaise(rec[order[i]])}
    IN  IF bad = {} THEN rec
        ELSE rec[order[CHOOSE i \in bad : \A j \in bad : i <= j]]

\* annotate(l1, d, l2): a one-element list holding the triple
annotate(l1, d, l2) == PyList(<<PyTuple(<<l1, d, l2>>)>>)

\* members.append(annotate(m[0], member, m[2])) once member is computed
Annotated(l1, member, l2) ==
    IF IsRaise(member) THEN member
    ELSE IF IsRaise(l1) THEN l1
    ELSE IF IsRaise(l2) THEN l2
    ELSE annotate(l1, member, l2)

\* A call of the one-argument function of fpp_to_json_translator.py that is
\* bound to the name fn; function values are passed around by their names.
RECURSIVE Call(_, _)

\* [fn(x) for x in l]
ForEachCall(fn, l) == ForEach(LAMBDA x : Call(fn, x), l)

\* translate_optional(d, func)
translate_optional(d, func) ==
    IF InRaises(d) THEN InError(d)
    ELSE IF In("Some", d) THEN Call(func, GetItem(d, "Some"))
    ELSE None

translate_string(d) == WithNode(d, create_with_id)

\* Ident is an alias of str: Ident(data) is str(data), which leaves a str as
\* it is; the text of another value is not modelled beyond its being a str.
Ident(data) == IF data.t = "str" THEN data ELSE PyStr("repr")

translate_ident(d) == WithNode(d, LAMBDA data, id : create_with_id(Ident(data), id))

translate_qual_ident(d) ==
    WithNode(d, LAMBDA data, id :
        IF IsRaise(DictGet(data, "Unqualified")) THEN DictGet(data, "Unqualified")
        ELSE IF Truthy(DictGet(data, "Unqualified"))
        THEN create_with_id(New([t |-> "Unqualified", name |-> Sub(data, "Unqualified", "name")],
                             <<"name">>), id)
        ELSE IF Truthy(DictGet(data, "Qualified"))
        THEN IF IsRaise(Sub(data, "Qualified", "qualifier"))
             THEN Sub(data, "Qualified", "qualifier")
             ELSE create_with_id(
                      New([t |-> "Qualified",
                           qualifier |-> Call("translate_qual_ident",
                                              Sub(data, "Qualified", "qualifier")),
                           name |-> Call("translate_ident", Sub(data, "Qualified", "name"))],
                          <<"qualifier", "name">>), id)
        ELSE None)   \* "TODO: raise error": the function ends without a return

translate_type_name(tn) ==
    WithNode(tn, LAMBDA data, id :
        IF InRaises(data) THEN InError(data)
        ELSE IF In("TypeNameFloat", data)
        THEN create_with_id(New([t |-> "TypeNameFloat",
                              name |-> FirstKey(Sub(data, "TypeNameFloat", "name"))],
                             <<"name">>), id)
        ELSE IF In("TypeNameInt", data)
        THEN create_with_id(New([t |-> "TypeNameInt",
                              name |-> FirstKey(Sub(data, "TypeNameInt", "name"))],
                             <<"name">>), id)
        ELSE IF In("TypeNameQualIdent", data)
        THEN create_with_id(New([t |-> "TypeNameQualIdent",
                              name |-> Call("translate_qual_ident",
                                            Sub(data, "TypeNameQualIdent", "name"))],
                             <<"name">>), id)
        ELSE IF In("TypeNameBool", data) THEN create_with_id([t |-> "TypeNameBool"], id)
        ELSE IF In("TypeNameString", data)
        THEN create_with_id([t |-> "TypeNameString", size |-> None], id)
        ELSE Raise("Exception", "Invalid type name dictionary"))

\* kind = FormalParamKind.REF; if "Value" in data["kind"]: kind = VALUE
formal_param_kind(k) ==
    IF IsRaise(k) \/ InRaises(k) THEN InError(k)
    ELSE IF In("Value", k) THEN Enum("FormalParamKind.VALUE")
    ELSE Enum("FormalParamKind.REF")

\* the body of translate_formal_params's loop, for one element p
formal_param(p) ==
    WithNode(GetIndex(p, 1), LAMBDA data, id :
        Annotated(GetIndex(p, 0),
                  create_with_id(New([t |-> "FormalParam",
                                   kind |-> formal_param_kind(GetItem(data, "kind")),
                                   name |-> GetItem(data, "name"),
                                   typeName |-> Call("translate_type_name",
                                                     GetItem(data, "typeName"))],
                                  <<"name", "kind", "typeName">>), id),
                  GetIndex(p, 2)))

translate_formal_params(params_list) == ForEach(formal_param, params_list)

translate_binop(d) ==
    IF InRaises(d) THEN InError(d)
    ELSE IF In("Add", d) THEN Enum("Binop.ADD")
    ELSE IF In("Sub", d) THEN Enum("Binop.SUB")
    ELSE IF In("Mul", d) THEN Enum("Binop.MUL")
    ELSE IF In("Div", d) THEN Enum("Binop.DIV")
    ELSE Raise("Exception", "Invalid Binop JSON")

\* one member m of an ExprStruct
expr_struct_member(m) ==
    create_with_id(New([t |-> "StructMember",
                     name |-> GetItem(Sub(m, "AstNode", "data"), "name"),
                     value |-> Call("translate_expr", GetItem(Sub(m, "AstNode", "data"), "value"))],
                    <<"name", "value">>),
                Sub(m, "AstNode", "id"))

translate_expr(expr_dict) ==
    WithNode(expr_dict, LAMBDA data, id :
        LET literal(k) == create_with_id(New([t |-> k, value |-> Sub(data, k, "value")], <<"value">>), id)
        IN  IF InRaises(data) THEN InError(data)
            ELSE IF In("ExprArray", data)
            THEN create_with_id(New([t |-> "ExprArray",
                                  elts |-> ForEachCall("translate_expr",
                                                       Sub(data, "ExprArray", "elts"))],
                                 <<"elts">>), id)
            ELSE IF In("ExprBinop", data)
            THEN create_with_id(New([t |-> "ExprBinop",
                                  e1 |-> Call("translate_expr", Sub(data, "ExprBinop", "e1")),
                                  op |-> Call("translate_binop", Sub(data, "ExprBinop", "op")),
                                  e2 |-> Call("translate_expr", Sub(data, "ExprBinop", "e2"))],
                                 <<"e1", "op", "e2">>), id)
            ELSE IF In("ExprDot", data)
            THEN create_with_id(New([t |-> "ExprDot",
                                  e |-> Call("translate_expr", Sub(data, "ExprDot", "e")),
                                  id |-> Call("translate_ident", Sub(data, "ExprDot", "id"))],
                                 <<"e", "id">>), id)
            ELSE IF In("ExprIdent", data) THEN literal("ExprIdent")
            ELSE IF In("ExprLiteralBool", data) THEN literal("ExprLiteralBool")
            ELSE IF In("ExprLiteralInt", data) THEN literal("ExprLiteralInt")
            ELSE IF In("ExprLiteralFloat", data) THEN literal("ExprLiteralFloat")
            ELSE IF In("ExprLiteralString", data) THEN literal("ExprLiteralString")
            ELSE IF In("ExprParen", data)
            THEN Raise("Exception", "Translation for ExprParen not implemented.")
            ELSE IF In("ExprStruct", data)
            THEN create_with_id(New([t |-> "ExprStruct",
                                  members |-> ForEach(expr_struct_member,
                                                      Sub(data, "ExprStruct", "members"))],
                                 <<"members">>), id)
            ELSE IF In("ExprUnop", data)
            THEN create_with_id(New([t |-> "ExprUnop", op |-> Enum("Unop.MINUS"),
                                  e |-> Call("translate_expr", Sub(data, "ExprUnop", "e"))],
                                 <<"e">>), id)
            ELSE Raise("Exception", "Invalid expression dictionary"))

translate_actions(l) == ForEachCall("translate_ident", l)

\* The annotation says AstNode[TransitionExpr]; the value returned is the
\* TransitionExpr itself, and the id read from the descriptor is dropped.
translate_transition_expr(te) ==
    WithNode(te, LAMBDA data, id :
        New([t |-> "TransitionExpr",
             actions |-> Call("translate_actions", GetItem(data, "actions")),
             target |-> Call("translate_qual_ident", GetItem(data, "target"))],
            <<"actions", "target">>))

translate_transition_or_do(d) ==
    IF InRaises(d) THEN InError(d)
    ELSE IF In("Transition", d)
    THEN New([t |-> "Transition",
              transition |-> create_with_id(
                  Call("translate_transition_expr", Sub(d, "Transition", "transition")),
                  read_id(Sub(d, "Transition", "transition")))],
             <<"transition">>)
    ELSE IF In("Do", d)
    THEN New([t |-> "Do", actions |-> Call("translate_actions", Sub(d, "Do", "actions"))],
             <<"actions">>)
    ELSE Raise("Exception", "Invalid Transition or Do JSON")

translate_limit_kind(d) ==
    WithNode(d, LAMBDA data, id :
        IF InRaises(data) THEN InError(data)
        ELSE IF In("Yellow", data) THEN create_with_id(Enum("LimitKind.YELLOW"), id)
        ELSE IF In("Orange", data) THEN create_with_id(Enum("LimitKind.ORANGE"), id)
        ELSE create_with_id(Enum("LimitKind.RED"), id))

translate_spec_tlm_channel_update(d) ==
    IF InRaises(d) THEN InError(d)
    ELSE IF In("Always", d) THEN Enum("SpecTlmChannelUpdate.ALWAYS")
    ELSE IF In("OnChange", d) THEN Enum("SpecTlmChannelUpdate.ON_CHANGE")
    ELSE Raise("InvalidFppToJsonField", "")

\* (a, b)
Pair(a, b) ==
    IF IsRaise(a) THEN a
    ELSE IF IsRaise(b) THEN b
    ELSE PyTuple(<<a, b>>)

\* one (kind, expr) pair of translate_limits
limit(e) ==
    Pair(Call("translate_limit_kind", GetIndex(e, 0)), Call("translate_expr", GetIndex(e, 1)))

translate_limits(l) == ForEach(limit, l)

translate_spec_command_kind(d) ==
    IF InRaises(d) THEN InError(d)
    ELSE IF In("Async", d) THEN Enum("SpecCommandKind.ASYNC")
    ELSE IF In("Sync", d) THEN Enum("SpecCommandKind.SYNC")
    ELSE Enum("SpecCommandKind.GUARDED")

translate_severity(d) ==
    IF InRaises(d) THEN InError(d)
    ELSE IF In("ActivityHigh", d) THEN Enum("SpecEventSeverity.ACTIVITY_HIGH")
    ELSE IF In("ActivityLow", d) THEN Enum("SpecEventSeverity.ACTIVITY_LOW")
    ELSE IF In("Command", d) THEN Enum("SpecEventSeverity.COMMAND")
    ELSE IF In("Diagnostic", d) THEN Enum("SpecEventSeverity.DIAGNOSTIC")
    ELSE IF In("Fatal", d) THEN Enum("SpecEventSeverity.FATAL")
    ELSE IF In("WarningHigh", d) THEN Enum("SpecEventSeverity.WARNING_HIGH")
    ELSE Enum("SpecEventSeverity.WARNING_LOW")

translate_queue_full(d) ==
    IF InRaises(d) THEN InError(d)
    ELSE IF In("Assert", d) THEN Enum("QueueFull.ASSERT")
    ELSE IF In("Block", d) THEN Enum("QueueFull.BLOCK")
    ELSE IF In("Drop", d) THEN Enum("QueueFull.DROP")
    ELSE Enum("QueueFull.HOOK")

translate_def_abs_type(data, id) ==
    create_with_id(New([t |-> "DefAbsType", name |-> GetItem(data, "name")], <<"name">>), id)

translate_def_alias_type(data, id) ==
    create_with_id(New([t |-> "DefAliasType", name |-> GetItem(data, "name"),
                     type_name |-> Call("translate_type_name", GetItem(data, "typeName"))],
                    <<"name", "type_name">>), id)

translate_def_array(data, id) ==
    create_with_id(New([t |-> "DefArray", name |-> GetItem(data, "name"),
                     size |-> Call("translate_expr", GetItem(data, "size")),
                     elt_type |-> Call("translate_type_name", GetItem(data, "eltType")),
                     default |-> translate_optional(GetItem(data, "default"), "translate_expr"),
                     format |-> translate_optional(GetItem(data, "format"), "translate_string")],
                    <<"name", "size", "elt_type", "default", "format">>), id)

\* a translate_def_constant that leaves the value as the raw descriptor
def_constant_raw_value(data, id) ==
    create_with_id(New([t |-> "DefConstant", name |-> GetItem(data, "name"),
                     value |-> GetItem(data, "value")],
                    <<"name", "value">>), id)

translate_def_constant(data, id) ==
    create_with_id(New([t |-> "DefConstant", name |-> GetItem(data, "name"),
                     value |-> Call("translate_expr", GetItem(data, "value"))],
                    <<"name", "value">>), id)

\* the body of translate_def_enum's loop: the node built for one constant c
def_enum_constant(c) ==
    WithNode(GetIndex(c, 1), LAMBDA const_data, const_id :
        create_with_id(New([t |-> "DefEnumConstant", name |-> GetItem(const_data, "name"),
                         value |-> translate_optional(GetItem(const_data, "value"),
                                                      "translate_expr")],
                        <<"name", "value">>), const_id))

\* [x]
ListOf(x) == IF IsRaise(x) THEN x ELSE PyList(<<x>>)

\* What follows translate_def_enum's loop, the loop having visited cs and
\* built nodes: constants.append(...) stands after the loop, not in it, so it
\* runs once, on the loop's last c and node, which are unbound when the loop
\* body never ran.
def_enum_after(cs, nodes, data, id) ==
    IF IsRaise(cs) THEN cs
    ELSE IF IsRaise(nodes) THEN nodes
    ELSE IF Len(cs.items) = 0 THEN Raise("UnboundLocalError", "c")
    ELSE create_with_id(
             New([t |-> "DefEnum",
                  constants |-> ListOf(Annotated(GetIndex(cs.items[Len(cs.items)], 0),
                                                 nodes.items[Len(cs.items)],
                                                 GetIndex(cs.items[Len(cs.items)], 2))),
                  name |-> GetItem(data, "name"),
                  type_name |-> translate_optional(GetItem(data, "typeName"),
                                                   "translate_type_name")],
                 <<"constants", "name", "type_name">>), id)

translate_def_enum(data, id) ==
    def_enum_after(Iter(GetItem(data, "constants")),
                   ForEach(def_enum_constant, GetItem(data, "constants")), data, id)

\* the body of translate_def_struct's loop, for one member m
def_struct_member(m) ==
    WithNode(GetIndex(m, 1), LAMBDA member_data, member_id :
        Annotated(GetIndex(m, 0),
                  create_with_id(
                      New([t |-> "StructTypeMember", name |-> GetItem(member_data, "name"),
                           size |-> translate_optional(GetItem(member_data, "size"),
                                                       "translate_expr"),
                           type_name |-> Call("translate_type_name",
                                              GetItem(member_data, "typeName")),
                           format |-> translate_optional(GetItem(member_data, "format"),
                                                         "translate_string")],
                          <<"name", "size", "type_name", "format">>), member_id),
                  GetIndex(m, 2)))

translate_def_struct(data, id) ==
    create_with_id(New([t |-> "DefStruct",
                     members |-> ForEach(def_struct_member, GetItem(data, "members")),
                     name |-> GetItem(data, "name"),
                     default |-> translate_optional(GetItem(data, "default"), "translate_expr")],
                    <<"members", "name", "default">>), id)

translate_special_input_kind(d) ==
    IF InRaises(d) THEN InError(d)
    ELSE IF In("Async", d) THEN Enum("SpecialInputKind.ASYNC")
    ELSE IF In("Sync", d) THEN Enum("SpecialInputKind.SYNC")
    ELSE IF In("Guarded", d) THEN Enum("SpecialInputKind.GUARDED")
    ELSE Raise("Exception", "Invalid special input kind dictionary")

SpecialKinds ==
    << <<"CommandRecv", "COMMAND_RECV">>, <<"CommandReg", "COMMAND_REG">>,
       <<"CommandResp", "COMMAND_RESP">>, <<"Event", "EVENT">>,
       <<"ParamGet", "PARAM_GET">>, <<"ParamSet", "PARAM_SET">>,
       <<"ProductGet", "PRODUCT_GET">>, <<"ProductRecv", "PRODUCT_RECV">>,
       <<"ProductRequest", "PRODUCT_REQUEST">>, <<"ProductSend", "PRODUCT_SEND">>,
       <<"Telemetry", "TELEMETRY">>, <<"TextEvent", "TEXT_EVENT">>,
       <<"TimeGet", "TIME_GET">> >>

\* the if/elif chain over SpecialKinds, first match first
translate_special_kind(d) ==
    LET hit == {i \in 1..Len(SpecialKinds) : In(SpecialKinds[i][1], d)}
    IN  IF InRaises(d) THEN InError(d)
        ELSE IF hit = {} THEN Raise("Exception", "Invalid special kind dictionary")
        ELSE Enum("SpecialKind." \o SpecialKinds[CHOOSE i \in hit : \A j \in hit : i <= j][2])

translate_general_kind(d) ==
    IF InRaises(d) THEN InError(d)
    ELSE IF In("AsyncInput", d) THEN Enum("GeneralKind.ASYNC_INPUT")
    ELSE IF In("GuardedInput", d) THEN Enum("GeneralKind.GUARDED_INPUT")
    ELSE IF In("Output", d) THEN Enum("GeneralKind.OUTPUT")
    ELSE IF In("SyncInput", d) THEN Enum("GeneralKind.SYNC_INPUT")
    ELSE Raise("Exception", "Invalid general kind dictionary")

\* Special(...) built from special_node = data["Special"]
port_instance_special(special_node) ==
    New([t |-> "Special",
         input_kind |-> translate_optional(GetItem(special_node, "inputKind"),
                                           "translate_special_input_kind"),
         kind |-> Call("translate_special_kind", GetItem(special_node, "kind")),
         name |-> GetItem(special_node, "name"),
         priority |-> translate_optional(GetItem(special_node, "priority"), "translate_expr"),
         queue_full |-> translate_optional(GetItem(special_node, "queueFull"),
                                           "translate_queue_full")],
        <<"input_kind", "kind", "name", "priority", "queue_full">>)

\* General(...) built from general_node = data["General"]
port_instance_general(general_node) ==
    New([t |-> "General",
         kind |-> Call("translate_general_kind", GetItem(general_node, "kind")),
         name |-> GetItem(general_node, "name"),
         size |-> translate_optional(GetItem(general_node, "size"), "translate_expr"),
         port |-> translate_optional(GetItem(general_node, "port"), "translate_qual_ident"),
         priority |-> translate_optional(GetItem(general_node, "priority"), "translate_expr"),
         queue_full |-> translate_optional(GetItem(general_node, "queueFull"),
                                           "translate_queue_full")],
        <<"kind", "name", "size", "port", "priority", "queue_full">>)

\* translate_port_instance once data = d["AstNode"]["data"] is read
port_instance_of(data) ==
    IF InRaises(data) THEN InError(data)
    ELSE IF In("Special", data) THEN port_instance_special(GetItem(data, "Special"))
    ELSE IF In("General", data) THEN port_instance_general(GetItem(data, "General"))
    ELSE Raise("Exception", "Invalid port instance dictionary")

\* Returns the Special or General itself, with no AstNode around it.
translate_port_instance(d) == port_instance_of(read_data(d))

\* A member class wrapping its node: class name and the node field
Member(cls, node) == IF IsRaise(node) THEN node ELSE [t |-> cls, node |-> node]

\* The member classes translate_component_members names that fpp_ast.py
\* does not define: looking the name up raises NameError before any argument
\* of the call is evaluated.
UndefinedComponentMembers ==
    {"SpecCommand", "DefStruct", "SpecTlmChannel", "SpecEvent", "SpecRecord",
     "SpecContainer", "SpecParam", "SpecPortMatching", "SpecInternalPort",
     "SpecPortInstance", "SpecImportInterface"}

\* the match statement of translate_component_members, on m_key = k
component_member_node(k, data, id) ==
    CASE k = "DefAbsType" ->
           Member("ComponentMemberDefAbsType", translate_def_abs_type(data, id))
      [] k = "DefAliasType" ->
           Member("ComponentMemberDefAliasType", translate_def_alias_type(data, id))
      [] k = "DefArray" ->
           Member("ComponentMemberDefArray", translate_def_array(data, id))
      [] k = "DefConstant" ->
           Member("ComponentMemberDefConstant", translate_def_constant(data, id))
      [] k = "DefEnum" ->
           Member("ComponentMemberDefEnum", translate_def_enum(data, id))
      [] k \in UndefinedComponentMembers ->
           Raise("NameError", "ComponentMember" \o k)
      [] OTHER -> Raise("InvalidFppToJsonField", k)

\* the body of translate_component_members's loop, for one element m of key k
component_member_of(m, k) ==
    WithNode(Sub(GetIndex(m, 1), k, "node"), LAMBDA data, id :
        Annotated(GetIndex(m, 0), component_member_node(k, data, id), GetIndex(m, 2)))

\* m_key = list(m[1].keys())[0], and the rest of the loop's body
component_member(m) ==
    IF IsRaise(FirstKey(GetIndex(m, 1))) THEN FirstKey(GetIndex(m, 1))
    ELSE component_member_of(m, FirstKey(GetIndex(m, 1)).str)

translate_component_members(l) == ForEach(component_member, l)

\* DefChoice(...) in an AstNode, as both state and state machine members build it
def_choice(data, id) ==
    create_with_id(
        New([t |-> "DefChoice", name |-> GetItem(data, "name"),
             guard |-> Call("translate_ident", GetItem(data, "guard")),
             if_transition |-> Call("translate_transition_expr", GetItem(data, "ifTransition")),
             else_transition |-> Call("translate_transition_expr",
                                      GetItem(data, "elseTransition"))],
            <<"name", "guard", "if_transition", "else_transition">>), id)

\* DefState(...) in an AstNode
def_state(data, id) ==
    create_with_id(
        New([t |-> "DefState", name |-> GetItem(data, "name"),
             members |-> Call("translate_state_members", GetItem(data, "members"))],
            <<"name", "members">>), id)

\* SpecInitialTransition(...) in an AstNode
spec_initial_transition(data, id) ==
    create_with_id(
        New([t |-> "SpecInitialTransition",
             transition |-> Call("translate_transition_expr", GetItem(data, "transition"))],
            <<"transition">>), id)

\* the actions of a SpecStateEntry or SpecStateExit (cls) in an AstNode
spec_state_actions(cls, data, id) ==
    create_with_id(
        New([t |-> cls, actions |-> Call("translate_actions", GetItem(data, "actions"))],
            <<"actions">>), id)

\* the match statement of translate_state_members, on m_key = k
state_member_node(k, data, id) ==
    CASE k = "DefChoice" -> Member("StateMemberDefChoice", def_choice(data, id))
      [] k = "DefState" -> Member("StateMemberDefState", def_state(data, id))
      [] k = "SpecStateEntry" ->
           Member("StateMemberSpecStateEntry", spec_state_actions("SpecStateEntry", data, id))
      [] k = "SpecStateExit" ->
           Member("StateMemberSpecStateExit", spec_state_actions("SpecStateExit", data, id))
      [] k = "SpecInitialTransition" ->
           Member("StateMemberSpecInitialTransition", spec_initial_transition(data, id))
      [] k = "SpecStateTransition" ->
           Member("StateMemberSpecStateTransition",
               create_with_id(
                   New([t |-> "SpecStateTransition",
                        signal |-> Call("translate_ident", GetItem(data, "signal")),
                        guard |-> translate_optional(GetItem(data, "guard"), "translate_ident"),
                        transition_or_do |-> Call("translate_transition_or_do",
                                                  GetItem(data, "transitionOrDo"))],
                       <<"signal", "transition_or_do", "guard">>), id))
      [] OTHER -> Raise("InvalidFppToJsonField", k)

\* the body of translate_state_members's loop, for one element m of key k
state_member_of(m, k) ==
    WithNode(Sub(GetIndex(m, 1), k, "node"), LAMBDA data, id :
        Annotated(GetIndex(m, 0), state_member_node(k, data, id), GetIndex(m, 2)))

\* m_key = list(m_dict.keys())[0], and the rest of the loop's body
state_member(m) ==
    IF IsRaise(FirstKey(GetIndex(m, 1))) THEN FirstKey(GetIndex(m, 1))
    ELSE state_member_of(m, FirstKey(GetIndex(m, 1)).str)

translate_state_members(l) == ForEach(state_member, l)

\* Returns the PortInstanceIdentifier itself; the descriptor's id is dropped.
translate_port_instance_identifier(d) ==
    WithNode(d, LAMBDA data, id :
        New([t |-> "PortInstanceIdentifier",
             component_instance |-> Call("translate_qual_ident",
                                         GetItem(data, "componentInstance")),
             port_name |-> Call("translate_ident", GetItem(data, "portName"))],
            <<"component_instance", "port_name">>))

PatternKinds ==
    << <<"Command", "COMMAND">>, <<"Event", "EVENT">>, <<"Health", "HEALTH">>,
       <<"Param", "PARAM">>, <<"Telemetry", "TELEMETRY">>,
       <<"TextEvent", "TEXT_EVENT">>, <<"Time", "TIME">> >>

translate_pattern_kind(d) ==
    LET kind == FirstKey(d)
        hit == {i \in 1..Len(PatternKinds) : PatternKinds[i][1] = kind.str}
    IN  IF IsRaise(kind) THEN kind
        ELSE IF hit = {} THEN Raise("InvalidFppToJsonField", kind.str)
        ELSE Enum("PatternKind." \o PatternKinds[CHOOSE i \in hit : TRUE][2])

translate_tlm_channel_identifier(d) ==
    WithNode(d, LAMBDA data, id :
        create_with_id(
            New([t |-> "TlmChannelIdentifier",
                 component_instance |-> Call("translate_qual_ident",
                                             GetItem(data, "componentInstance")),
                 channel_name |-> Call("translate_ident", GetItem(data, "channelName"))],
                <<"component_instance", "channel_name">>), id))

\* the body of translate_init_specs's loop, for one element e
init_spec(e) ==
    WithNode(GetIndex(e, 1), LAMBDA data, id :
        Annotated(GetIndex(e, 0),
                  create_with_id(New([t |-> "SpecInit",
                                   phase |-> Call("translate_expr", GetItem(data, "phase")),
                                   code |-> GetItem(data, "code")],
                                  <<"phase", "code">>), id),
                  GetIndex(e, 2)))

translate_init_specs(l) == ForEach(init_spec, l)

\* the match statement of translate_interface_members, on m_key = k
interface_member_node(k, m_node) ==
    CASE k = "SpecPortInstance" ->
           Member("InterfaceMemberSpecPortInstance",
                  create_with_id(Call("translate_port_instance", m_node), read_id(m_node)))
      [] k = "SpecImportInterface" ->
           Member("InterfaceMemberSpecImportInterface",
                  create_with_id(New([t |-> "SpecImport",
                                   sym |-> Call("translate_qual_ident",
                                                GetItem(read_data(m_node), "sym"))],
                                  <<"sym">>), read_id(m_node)))
      [] OTHER -> Raise("InvalidFppToJsonField", k)

\* the loop's body once m_node = m_dict[m_key]["node"] is read: id, then data
interface_member_at(mn, k, m_node) ==
    IF IsRaise(read_id(m_node)) THEN read_id(m_node)
    ELSE IF IsRaise(read_data(m_node)) THEN read_data(m_node)
    ELSE Annotated(GetIndex(mn, 0), interface_member_node(k, m_node), GetIndex(mn, 2))

\* the body of translate_interface_members's loop, for mn = m["node"]
interface_member_of(mn) ==
    IF IsRaise(FirstKey(GetIndex(mn, 1))) THEN FirstKey(GetIndex(mn, 1))
    ELSE interface_member_at(mn, FirstKey(GetIndex(mn, 1)).str,
                             Sub(GetIndex(mn, 1), FirstKey(GetIndex(mn, 1)).str, "node"))

interface_member(m) == interface_member_of(GetItem(m, "node"))

translate_interface_members(l) == ForEach(interface_member, l)

\* One member m of a telemetry packet: a TlmChannelIdentifier is decoded by
\* translate_tlm_channel_identifier, which returns an AstNode, and wrapped in
\* create_with_id again; a member with another key appends nothing (skip).
Skip == [t |-> "skip"]
tlm_packet_member(m) ==
    IF InRaises(m) THEN InError(m)
    ELSE IF In("TlmChannelIdentifier", m)
    THEN Member("TlmPacketMemberTlmChannelIdentifier",
                create_with_id(Call("translate_tlm_channel_identifier",
                                 Sub(m, "TlmChannelIdentifier", "node")),
                            read_id(Sub(m, "TlmChannelIdentifier", "node"))))
    ELSE Skip

\* the list a loop built, its skipped elements left out
RECURSIVE Appended(_)
Appended(rs) ==
    IF rs = <<>> THEN <<>>
    ELSE IF Head(rs) = Skip THEN Appended(Tail(rs))
    ELSE <<Head(rs)>> \o Appended(Tail(rs))

\* what a loop with skipping bodies leaves in its list
Kept(r) == IF IsRaise(r) THEN r ELSE PyList(Appended(r.items))

\* the body of translate_tlm_packet_set_members's loop, for mn = member["node"]
tlm_packet_set_member_of(mn) ==
    IF InRaises(GetIndex(mn, 1)) THEN InError(GetIndex(mn, 1))
    ELSE IF In("SpecTlmPacket", GetIndex(mn, 1))
    THEN WithNode(Sub(GetIndex(mn, 1), "SpecTlmPacket", "node"),
             LAMBDA spec_tlm_pkt_data, spec_tlm_pkt_id :
                 Annotated(GetIndex(mn, 0),
                     Member("TlmPacketSetMemberSpecTlmPacket",
                         create_with_id(
                             New([t |-> "SpecTlmPacket",
                                  members |-> Kept(ForEach(tlm_packet_member,
                                                   GetItem(spec_tlm_pkt_data, "members"))),
                                  name |-> GetItem(spec_tlm_pkt_data, "name"),
                                  id |-> translate_optional(GetItem(spec_tlm_pkt_data, "id"),
                                                            "translate_expr"),
                                  group |-> GetItem(spec_tlm_pkt_data, "group")],
                                 <<"members", "name", "id", "group">>),
                             spec_tlm_pkt_id)),
                     GetIndex(mn, 2)))
    ELSE IF In("SpecInclude", GetIndex(mn, 1))
    THEN Raise("NotSupportedInFppToJsonException", "SpecInclude")
    ELSE Skip

tlm_packet_set_member(member) == tlm_packet_set_member_of(GetItem(member, "node"))

\* a function body that ends without a return statement
NoReturn(r) == IF IsRaise(r) THEN r ELSE None

\* The members list is built and then dropped: the function has no return
\* statement, so a call that does not raise returns None.
translate_tlm_packet_set_members(d) == NoReturn(ForEach(tlm_packet_set_member, d))

\* an optional connection index x = c[key]: anything but the string "None"
\* is taken to be {"Some": expr}
connection_index(x) ==
    IF IsRaise(x) THEN x
    ELSE IF x # PyStr("None") THEN Call("translate_expr", GetItem(x, "Some"))
    ELSE None

\* the body of the loop over data["Direct"]["connections"], for one c
connection(c) ==
    New([t |-> "Connection",
         fromIndex |-> connection_index(GetItem(c, "fromIndex")),
         toIndex |-> connection_index(GetItem(c, "toIndex")),
         isUnmatch |-> GetItem(c, "isUnmatched"),
         fromPort |-> Call("translate_port_instance_identifier", GetItem(c, "fromPort")),
         toPort |-> Call("translate_port_instance_identifier", GetItem(c, "toPort"))],
        <<"fromIndex", "toIndex", "isUnmatch", "fromPort", "toPort">>)

\* visibility = PRIVATE; if "Public" in data["visibility"]: visibility = PUBLIC
visibility_of(vis) ==
    IF InRaises(vis) THEN InError(vis)
    ELSE IF In("Public", vis) THEN Enum("Visibility.PUBLIC")
    ELSE Enum("Visibility.PRIVATE")

\* the connection_graph of a SpecConnectionGraph member
connection_graph(data) ==
    IF InRaises(data) THEN InError(data)
    ELSE IF In("Direct", data)
    THEN New([t |-> "Direct",
              connections |-> ForEach(connection, Sub(data, "Direct", "connections")),
              name |-> Sub(data, "Direct", "name")],
             <<"connections", "name">>)
    ELSE IF In("Pattern", data)
    THEN New([t |-> "Pattern",
              targets |-> ForEachCall("translate_qual_ident", Sub(data, "Pattern", "targets")),
              kind |-> Call("translate_pattern_kind", Sub(data, "Pattern", "kind")),
              source |-> Call("translate_qual_ident", Sub(data, "Pattern", "source"))],
             <<"targets", "kind", "source">>)
    ELSE Raise("Exception", "Invalid SpecConnectionGraph dictionary")

\* the match statement of translate_topology_members, on m_key = k
topology_member_node(k, data, id) ==
    CASE k = "SpecCompInstance" ->
           Member("TopologyMemberSpecCompInstance",
               create_with_id(
                   New([t |-> "SpecCompInstance",
                        visibility |-> visibility_of(GetItem(data, "visibility")),
                        instance |-> Call("translate_qual_ident", GetItem(data, "instance"))],
                       <<"visibility", "instance">>), id))
      [] k = "SpecConnectionGraph" ->
           Member("TopologyMemberSpecConnectionGraph", create_with_id(connection_graph(data), id))
      [] k = "SpecInclude" ->
           Raise("Exception", "SpecInclude translation not implemented")
      [] k = "SpecTlmPacketSet" ->
           Member("TopologyMemberSpecTlmPacketSet",
               create_with_id(
                   New([t |-> "SpecTlmPacketSet",
                        omitted |-> ForEachCall("translate_tlm_channel_identifier",
                                                GetItem(data, "omitted")),
                        name |-> GetItem(data, "name"),
                        members |-> Call("translate_tlm_packet_set_members",
                                         GetItem(data, "members"))],
                       <<"omitted", "name", "members">>), id))
      [] k = "SpecTopImport" ->
           Member("TopologyMemberSpecTopImport",
               create_with_id(
                   New([t |-> "SpecImport",
                        sym |-> Call("translate_qual_ident", GetItem(data, "sym"))],
                       <<"sym">>), id))
      [] OTHER -> Raise("InvalidFppToJsonField", k)

\* the loop's body once m_node = m_dict[m_key]["node"] is read: id, then
\* data, then the member, which is appended as it is (annotate is not called)
topology_member_at(k, m_node) ==
    IF IsRaise(read_id(m_node)) THEN read_id(m_node)
    ELSE IF IsRaise(read_data(m_node)) THEN read_data(m_node)
    ELSE topology_member_node(k, read_data(m_node), read_id(m_node))

\* the body of translate_topology_members's loop, for one element m
topology_member(m) ==
    IF IsRaise(FirstKey(GetIndex(m, 1))) THEN FirstKey(GetIndex(m, 1))
    ELSE topology_member_at(FirstKey(GetIndex(m, 1)).str,
                            Sub(GetIndex(m, 1), FirstKey(GetIndex(m, 1)).str, "node"))

translate_topology_members(l) == ForEach(topology_member, l)

\* the lists of rs (a sequence of lists), joined in order
RECURSIVE Concat(_)
Concat(rs) == IF rs = <<>> THEN <<>> ELSE Head(rs).items \o Concat(Tail(rs))

\* what nested loops appending to one list leave in it
Flat(rs) == IF IsRaise(rs) THEN rs ELSE PyList(Concat(rs.items))

\* for k, v in d.items(): body(k, v), giving the list of what the bodies
\* appended, or the first exception
ForItems(body(_, _), d) ==
    IF IsRaise(d) THEN d
    ELSE IF d.t # "dict" THEN Raise("AttributeError", "items")
    ELSE ListOrRaise([i \in 1..Len(d.kv) |-> body(d.kv[i][1], d.kv[i][2])])

\* the match statement of translate_state_machine_members, on k
state_machine_member_node(k, data, id) ==
    LET typed(cls, mcls) ==
            Member(mcls,
                create_with_id(
                    New([t |-> cls, name |-> GetItem(data, "name"),
                         type_name |-> translate_optional(GetItem(data, "typeName"),
                                                          "translate_type_name")],
                        <<"name", "type_name">>), id))
    IN  CASE k = "DefAction" -> typed("DefAction", "StateMachineMemberDefAction")
          [] k = "DefChoice" -> Member("StateMachineMemberDefChoice", def_choice(data, id))
          [] k = "DefGuard" -> typed("DefGuard", "StateMachineMemberDefGuard")
          [] k = "DefSignal" -> typed("DefSignal", "StateMachineMemberDefSignal")
          [] k = "DefState" -> Member("StateMachineMemberDefState", def_state(data, id))
          [] k = "SpecInitialTransition" ->
               Member("StateMachineMemberDefSpecInitialTransition",
                      spec_initial_transition(data, id))
          [] OTHER -> Raise("InvalidFppToJsonField", k)

\* one (k, v) of a state machine member l: the annotated member appended
state_machine_member_item(l, k, v) ==
    WithNode(GetItem(v, "node"), LAMBDA data, id :
        Annotated(GetIndex(l, 0), state_machine_member_node(k, data, id), GetIndex(l, 2)))

\* the body of the loop over d["Some"], for one element l
state_machine_member(l) ==
    ForItems(LAMBDA k, v : state_machine_member_item(l, k, v), GetIndex(l, 1))

\* d.get("Some") decides: a falsy value (no key, or an empty list) gives []
translate_state_machine_members(d) ==
    IF IsRaise(DictGet(d, "Some")) THEN DictGet(d, "Some")
    ELSE IF Truthy(DictGet(d, "Some"))
    THEN Flat(ForEach(state_machine_member, GetItem(d, "Some")))
    ELSE PyList(<<>>)

\* the if/elif chain over data["kind"] of a DefComponent
component_kind(kind) ==
    IF InRaises(kind) THEN InError(kind)
    ELSE IF In("Active", kind) THEN Enum("ComponentKind.ACTIVE")
    ELSE IF In("Passive", kind) THEN Enum("ComponentKind.PASSIVE")
    ELSE IF In("Queued", kind) THEN Enum("ComponentKind.QUEUED")
    ELSE Raise("Exception", "Invalid component kind dictionary")

\* the match statement of translate_module_members, on k
module_member_node(k, data, id) ==
    LET named(cls, mcls, fn) ==
            Member(mcls,
                create_with_id(
                    New([t |-> cls, name |-> GetItem(data, "name"),
                         members |-> Call(fn, GetItem(data, "members"))],
                        <<"members">>), id))
    IN  CASE k = "DefAbsType" ->
               Member("ModuleMemberDefAbsType", translate_def_abs_type(data, id))
          [] k = "DefAliasType" ->
               Member("ModuleMemberDefAliasType", translate_def_alias_type(data, id))
          [] k = "DefArray" ->
               Member("ModuleMemberDefArray", translate_def_array(data, id))
          [] k = "DefComponent" ->
               Member("ModuleMemberDefComponent",
                   create_with_id(
                       New([t |-> "DefComponent",
                            kind |-> component_kind(GetItem(data, "kind")),
                            name |-> GetItem(data, "name"),
                            members |-> Call("translate_component_members",
                                             GetItem(data, "members"))],
                           <<"kind", "members">>), id))
          [] k = "DefComponentInstance" ->
               Member("ModuleMemberDefComponentInstance",
                   create_with_id(
                       New([t |-> "DefComponentInstance", name |-> GetItem(data, "name"),
                            component |-> Call("translate_qual_ident",
                                               GetItem(data, "component")),
                            base_id |-> Call("translate_expr", GetItem(data, "baseId")),
                            impl_type |-> translate_optional(GetItem(data, "implType"),
                                                             "translate_string"),
                            file |-> translate_optional(GetItem(data, "file"),
                                                        "translate_string"),
                            queue_size |-> translate_optional(GetItem(data, "queueSize"),
                                                              "translate_expr"),
                            stack_size |-> translate_optional(GetItem(data, "stackSize"),
                                                              "translate_expr"),
                            priority |-> translate_optional(GetItem(data, "priority"),
                                                            "translate_expr"),
                            cpu |-> translate_optional(GetItem(data, "cpu"), "translate_expr"),
                            init_specs |-> Call("translate_init_specs",
                                                GetItem(data, "initSpecs"))],
                           <<"component", "base_id", "impl_type", "file", "queue_size",
                             "stack_size", "priority", "cpu", "init_specs">>), id))
          [] k = "DefConstant" ->
               Member("ModuleMemberDefConstant", translate_def_constant(data, id))
          [] k = "DefEnum" ->
               Member("ModuleMemberDefEnum", translate_def_enum(data, id))
          [] k = "DefInterface" ->
               named("DefInterface", "ModuleMemberDefInterface", "translate_interface_members")
          [] k = "DefModule" ->
               named("DefModule", "ModuleMemberDefModule", "translate_module_members")
          [] k = "DefPort" ->
               Member("ModuleMemberDefPort",
                   create_with_id(
                       New([t |-> "DefPort", name |-> GetItem(data, "name"),
                            params |-> Call("translate_formal_params", GetItem(data, "params")),
                            return_type |-> translate_optional(GetItem(data, "returnType"),
                                                               "translate_type_name")],
                           <<"params", "return_type">>), id))
          [] k = "DefStateMachine" ->
               named("DefStateMachine", "ModuleMemberDefStateMachine",
                     "translate_state_machine_members")
          [] k = "DefStruct" ->
               Member("ModuleMemberDefStruct", translate_def_struct(data, id))
          [] k = "DefTopology" ->
               named("DefTopology", "ModuleMemberDefTopology", "translate_topology_members")
          [] k = "SpecInclude" -> Raise("NotSupportedInFppToJsonException", k)
          [] k = "SpecLoc" -> Raise("NotSupportedInFppToJsonException", k)
          [] OTHER -> Raise("InvalidFppToJsonField", k)

\* one (k, v) of a module member m: the annotated member appended.  The name
\* is read from the node before the key is looked at.
module_member_item(m, k, v) ==
    WithNode(GetItem(v, "node"), LAMBDA data, id :
        IF IsRaise(GetItem(data, "name")) THEN GetItem(data, "name")
        ELSE Annotated(GetIndex(m, 0), module_member_node(k, data, id), GetIndex(m, 2)))

\* the body of translate_module_members's outer loop, for one element m
module_member(m) ==
    ForItems(LAMBDA k, v : module_member_item(m, k, v), GetIndex(m, 1))

translate_module_members(l) == Flat(ForEach(module_member, l))

\* the functions of the module, by name
Call(fn, d) ==
    CASE fn = "translate_string" -> translate_string(d)
      [] fn = "translate_ident" -> translate_ident(d)
      [] fn = "translate_qual_ident" -> translate_qual_ident(d)
      [] fn = "translate_type_name" -> translate_type_name(d)
      [] fn = "translate_formal_params" -> translate_formal_params(d)
      [] fn = "translate_binop" -> translate_binop(d)
      [] fn = "translate_expr" -> translate_expr(d)
      [] fn = "translate_actions" -> translate_actions(d)
      [] fn = "translate_transition_expr" -> translate_transition_expr(d)
      [] fn = "translate_transition_or_do" -> translate_transition_or_do(d)
      [] fn = "translate_limit_kind" -> translate_limit_kind(d)
      [] fn = "translate_spec_tlm_channel_update" -> translate_spec_tlm_channel_update(d)
      [] fn = "translate_limits" -> translate_limits(d)
      [] fn = "translate_spec_command_kind" -> translate_spec_command_kind(d)
      [] fn = "translate_severity" -> translate_severity(d)
      [] fn = "translate_queue_full" -> translate_queue_full(d)
      [] fn = "translate_special_input_kind" -> translate_special_input_kind(d)
      [] fn = "translate_special_kind" -> translate_special_kind(d)
      [] fn = "translate_general_kind" -> translate_general_kind(d)
      [] fn = "translate_port_instance" -> translate_port_instance(d)
      [] fn = "translate_component_members" -> translate_component_members(d)
      [] fn = "translate_state_members" -> translate_state_members(d)
      [] fn = "translate_port_instance_identifier" -> translate_port_instance_identifier(d)
      [] fn = "translate_pattern_kind" -> translate_pattern_kind(d)
      [] fn = "translate_tlm_channel_identifier" -> translate_tlm_channel_identifier(d)
      [] fn = "translate_init_specs" -> translate_init_specs(d)
      [] fn = "translate_interface_members" -> translate_interface_members(d)
      [] fn = "translate_tlm_packet_set_members" -> translate_tlm_packet_set_members(d)
      [] fn = "translate_topology_members" -> translate_topology_members(d)
      [] fn = "translate_state_machine_members" -> translate_state_machine_members(d)
      [] fn = "translate_module_members" -> translate_module_members(d)

\* A kind decoder on a raw kind object: four are functions of the module, the
\* formal parameter kind and the component instance visibility are computed
\* in line by translate_formal_params and translate_topology_members.
kind_of(fn, d) ==
    CASE fn = "formal_param_kind" -> formal_param_kind(d)
      [] fn = "visibility_of" -> visibility_of(d)
      [] OTHER -> Call(fn, d)

\* A file: the JSON value it holds, or NoFile when the path does not exist.
NoFile == [t |-> "nofile"]

\* The values translate_module_members is called with, in order: the values
\* of every top-level entry that is a dict (other entries are passed over).
RECURSIVE ast_values(_)
ast_values(ds) ==
    IF ds = <<>> THEN <<>>
    ELSE (IF Head(ds).t = "dict"
          THEN [i \in 1..Len(Head(ds).kv) |-> Head(ds).kv[i][2]]
          ELSE <<>>) \o ast_values(Tail(ds))

\* m = translate_module_members(v); print(m), for the values in order: ms
\* holds what each call gives, and the loop ends at the first that raised.
ast_entries(ms) ==
    LET bad == {i \in 1..Len(ms) : IsRaise(ms[i])}
        first == CHOOSE i \in bad : \A j \in bad : i <= j
    IN  IF bad = {} THEN [ret |-> None, printed |-> ms]
        ELSE [ret |-> ms[first], printed |-> SubSeq(ms, 1, first - 1)]

\* translate_ast_json(file): what it returns or raises, and what it printed
translate_ast_json(file) ==
    IF file = NoFile THEN [ret |-> Raise("FileNotFoundError", "file"), printed |-> <<>>]
    ELSE IF IsRaise(Iter(file)) THEN [ret |-> Iter(file), printed |-> <<>>]
    ELSE ast_entries([i \in 1..Len(ast_values(Iter(file).items)) |->
                         Call("translate_module_members", ast_values(Iter(file).items)[i])])

----------------------------------------------------------------------------
(* fpp_locations.py: Locations, on the value map of Locations._map *)

\* a put that keeps the entry an id already has
put_keeps_first(map, id, loc) == map @@ (id :> loc)

\* a put that replaces the whole map by the one entry
put_only(map, id, loc) == (id :> loc)

\* Locations.put(id, loc): the map afterwards
put(map, id, loc) == (id :> loc) @@ map

\* a get that gives None for an id the map does not hold
get_or_none(map, id) == IF id \in DOMAIN map THEN map[id] ELSE None

\* Locations.get(id)
get(map, id) ==
    IF id \in DOMAIN map THEN map[id]
    ELSE Raise("InternalError", "unknown location for AST node")

\* a get_opt by subscript, which raises for an id the map does not hold
get_opt_subscript(map, id) == IF id \in DOMAIN map THEN map[id] ELSE Raise("KeyError", "id")

\* Locations.get_opt(id): dict.get
get_opt(map, id) == IF id \in DOMAIN map THEN map[id] ELSE None

\* a get_map that returns Locations._map itself
get_map_no_copy(map) == [t |-> "dict", map |-> map, shared |-> TRUE]

\* Locations.get_map(): a copy of the dict, a new object with the same
\* entries; shared says whether the object is Locations._map itself
get_map(map) == [t |-> "dict", map |-> map, shared |-> FALSE]

\* pathlib.Path(s): "./" in front of a relative path is dropped, and the
\* empty path is "."; the other file names of the model are already normal.
Path(s) ==
    IF IsRaise(s) THEN s
    ELSE IF s.t # "str" THEN Raise("TypeError", "Path")
    ELSE [t |-> "Path", path |-> CASE s.str = "./a.fpp" -> "a.fpp"
                                   [] s.str = "" -> "."
                                   [] OTHER -> s.str]

Location(path, pos, includingLoc) ==
    [t |-> "Location", path |-> path, pos |-> pos, includingLoc |-> includingLoc]

\* int(k) for a key of at most one decimal digit, ValueError for other text
Digits == <<"0", "1", "2", "3", "4", "5", "6", "7", "8", "9">>
int(k) ==
    IF \E i \in 1..Len(Digits) : Digits[i] = k
    THEN PyInt((CHOOSE i \in 1..Len(Digits) : Digits[i] = k) - 1)
    ELSE Raise("ValueError", k)

\* a handler that lets the KeyError of the subscript through as it is
except_nothing(k, e) == e

\* except KeyError as e: raise KeyError(...) with the id and the field in
\* its message; any other exception leaves the loop as it is.
except_KeyError(k, e) ==
    IF IsRaise(e) /\ e.exc = "KeyError"
    THEN Raise("KeyError", "Location map for ID " \o k
                           \o " is missing required field '" \o e.arg \o "'")
    ELSE e

\* The try block of translate_location_map_json for one (k, v): the
\* Location to put, or the exception that leaves the loop.
location_of(k, v) ==
    except_KeyError(k, New(Location(Path(GetItem(v, "file")), GetItem(v, "pos"),
                                    GetItem(v, "includingLoc")),
                           <<"path", "pos", "includingLoc">>))

\* a load that puts nothing when it fails: the map goes back to what it was
\* (orig) before the first put
RECURSIVE load_from(_, _, _)
load_from(kv, map, orig) ==
    IF kv = <<>> THEN [ret |-> get_map(map), map |-> map]
    ELSE IF IsRaise(int(Head(kv)[1])) THEN [ret |-> int(Head(kv)[1]), map |-> orig]
    ELSE IF IsRaise(location_of(Head(kv)[1], Head(kv)[2]))
    THEN [ret |-> location_of(Head(kv)[1], Head(kv)[2]), map |-> orig]
    ELSE load_from(Tail(kv), put(map, int(Head(kv)[1]).int,
                                 location_of(Head(kv)[1], Head(kv)[2])), orig)
load_all_or_nothing(kv, map) == load_from(kv, map, map)

\* for k, v in data.items(): Locations.put(int(k), Location(...)); the puts
\* made before an exception stay in the map.  After the loop the function
\* returns Locations.get_map().
RECURSIVE load_items(_, _)
load_items(kv, map) ==
    IF kv = <<>> THEN [ret |-> get_map(map), map |-> map]
    ELSE LET k == Head(kv)[1]
             id == int(k)
             loc == location_of(k, Head(kv)[2])
         IN  IF IsRaise(id) THEN [ret |-> id, map |-> map]
             ELSE IF IsRaise(loc) THEN [ret |-> loc, map |-> map]
             ELSE load_items(Tail(kv), put(map, id.int, loc))

\* a load that takes a missing file for an empty location map
load_missing_as_empty(file, map) ==
    IF file = NoFile THEN load_items(<<>>, map)
    ELSE IF file.t # "dict" THEN [ret |-> Raise("AttributeError", "items"), map |-> map]
    ELSE load_items(file.kv, map)

\* translate_location_map_json(file), from the map as it is: what the call
\* returns or raises, and the map afterwards
translate_location_map_json(file, map) ==
    IF file = NoFile THEN [ret |-> Raise("FileNotFoundError", "file"), map |-> map]
    ELSE IF file.t # "dict" THEN [ret |-> Raise("AttributeError", "items"), map |-> map]
    ELSE load_items(file.kv, map)

----------------------------------------------------------------------------
(* fpp_ast_node.py: fresh identities *)

\* a get_id that advances the counter before it reads the id
get_id_preincrement(next_id) == [id |-> next_id + 1, next_id |-> next_id + 1]

\* AstNode.get_id(): the id returned and the counter afterwards
get_id(next_id) == [id |-> next_id, next_id |-> next_id + 1]

\* AstNode.create(data): the node and the counter afterwards
create(data, next_id) ==
    [node |-> AstNode(data, PyInt(get_id(next_id).id)), next_id |-> get_id(next_id).next_id]

----------------------------------------------------------------------------
(* fpp_ast.py: the qualified-identifier builder *)

Reverse(s) == [i \in 1..Len(s) |-> s[Len(s) + 1 - i]]

\* a split without the test for the empty list
split_unchecked(nl) ==
    [node_list |-> PyList(Reverse(nl.items)), ret |-> Raise("TypeError", "subscript")]

\* split(node_list): list.reverse() reverses the caller's list in place and
\* returns None, so rev is None and "not rev" holds for every list.
\* ret is what the call returns or raises, node_list the caller's list after.
split(nl) ==
    LET rev == None
    IN  [node_list |-> PyList(Reverse(nl.items)),
         ret |-> IF ~Truthy(rev) THEN Raise("InternalError", "node list should not be empty")
                 ELSE Raise("TypeError", "subscript")]

\* name(node_list): split(node_list)[1] is computed and dropped: None
name(nl) == IF IsRaise(split(nl).ret) THEN split(nl).ret ELSE None

\* qualifier(node_list): likewise
qualifier(nl) == IF IsRaise(split(nl).ret) THEN split(nl).ret ELSE None

\* v._id
IdOf(v) ==
    IF IsRaise(v) THEN v
    ELSE IF v.t = "AstNode" THEN v._id
    ELSE Raise("AttributeError", "_id")

\* v.data
DataOf(v) ==
    IF IsRaise(v) THEN v
    ELSE IF v.t = "AstNode" THEN v.data
    ELSE Raise("AttributeError", "data")

\* qual_ident_from_node_list(node_list): ret and the caller's list afterwards.
\* In the qualified case AstNode.create is called with two arguments, after
\* name(prefix)._id has been evaluated, and no value is returned.
RECURSIVE qual_ident_from_node_list(_)

\* the function's body once split_node_list = split(node_list) is bound to s
qual_ident_of(s) ==
    IF IsRaise(s) THEN s
    ELSE IF ~Truthy(s.tup[1]) /\ Truthy(s.tup[2])
    THEN New([t |-> "Unqualified", name |-> DataOf(s.tup[2])], <<"name">>)
    ELSE IF Truthy(s.tup[1]) /\ Truthy(s.tup[2])
    THEN Try(<<qual_ident_from_node_list(s.tup[1]).ret, IdOf(name(s.tup[1]))>>,
             Raise("TypeError", "AstNode.create"))
    ELSE None

qual_ident_from_node_list(nl) ==
    [node_list |-> split(nl).node_list, ret |-> qual_ident_of(split(nl).ret)]

\* loc = Locations.get(node_list[0]._id), first being node_list[0]._id
first_location(first, map) ==
    IF IsRaise(first) THEN first
    ELSE IF first.t = "int" THEN get(map, first.int)
    ELSE Raise("InternalError", "unknown location for AST node")

\* node_from_node_list once qual_id is computed (q) and the node created (made)
node_located(q, made, loc, map) ==
    IF IsRaise(loc)
    THEN [ret |-> loc, node_list |-> q.node_list, map |-> map, next_id |-> made.next_id]
    ELSE [ret |-> made.node, node_list |-> q.node_list,
          map |-> put(map, made.node._id.int, loc), next_id |-> made.next_id]

\* node_from_node_list once qual_id = qual_ident_from_node_list(node_list)
node_of(q, map, next_id) ==
    IF IsRaise(q.ret)
    THEN [ret |-> q.ret, node_list |-> q.node_list, map |-> map, next_id |-> next_id]
    ELSE node_located(q, create(q.ret, next_id),
                      first_location(IdOf(GetIndex(q.node_list, 0)), map), map)

\* node_from_node_list(node_list), from the map and the counter as they are
node_from_node_list(nl, map, next_id) ==
    node_of(qual_ident_from_node_list(nl), map, next_id)

\* QualIdent.to_ident_list(): Unqualified gives [name]; Qualified adds a list
\* to the bound method self.qualifier.data.to_ident_list, which is not called
to_ident_list(q) ==
    CASE q.t = "Unqualified" -> PyList(<<q.name>>)
      [] q.t = "Qualified" ->
           Try(<<DataOf(q.qualifier), DataOf(q.name)>>, Raise("TypeError", "+"))
      [] OTHER -> Raise("AttributeError", "to_ident_list")


----------------------------------------------------------------------------
(* The inputs: raw JSON as fpp-to-json writes it *)

MaxLen == 2      \* longest list built from the core elements of a family
MaxId == 1       \* the location registry holds ids 0..MaxId
MaxFresh == 2    \* AstNode.create is called at most this often
MaxThreads == 3  \* the threads that call get_id or create at the same time

D1(k, v) == PyDict(<< <<k, v>> >>)
Empty == PyDict(<<>>)
Node(id, data) == D1("AstNode", PyDict(<< <<"id", PyInt(id)>>, <<"data", data>> >>))
Absent == PyStr("None")           \* an absent optional field
Some(v) == D1("Some", v)          \* a present optional field
Pre == PyList(<<PyStr("pre")>>)   \* comment lines
Post == PyList(<<PyStr("post")>>)
NoComment == PyList(<<>>)
\* an annotated element [pre, {key: {"node": node}}, post]
El(pre, key, node, post) == PyList(<<pre, D1(key, D1("node", node)), post>>)
\* an element of the families read through m["node"]
NodeEl(pre, key, node, post) == D1("node", El(pre, key, node, post))

IdentN(id, n) == Node(id, PyStr(n))
QUnq(id, n) == Node(id, D1("Unqualified", D1("name", PyStr(n))))
QQual(id, q, n) ==
    Node(id, D1("Qualified", PyDict(<< <<"qualifier", q>>, <<"name", IdentN(id + 1, n)>> >>)))
EInt(id) == Node(id, D1("ExprLiteralInt", D1("value", PyStr("3"))))
EIdent(id) == Node(id, D1("ExprIdent", D1("value", PyStr("x"))))
TBool(id) == Node(id, D1("TypeNameBool", Empty))
TFloat(id) == Node(id, D1("TypeNameFloat", D1("name", D1("F32", Empty))))

QualIdentInputs ==
    << QUnq(1, "a"),
       QQual(2, QUnq(1, "a"), "b"),
       QQual(4, QQual(2, QUnq(1, "a"), "b"), "c"),
       Node(1, Empty),                              \* neither entry
       Node(1, D1("Unqualified", Empty)),           \* an entry that is empty
       Node(1, D1("Bogus", Empty)),
       Node(1, D1("Qualified", D1("name", IdentN(2, "b")))),
       D1("id", PyInt(1)) >>

TypeNameInputs ==
    << TFloat(1), TBool(1),
       Node(1, D1("TypeNameInt", D1("name", D1("U32", Empty)))),
       Node(2, D1("TypeNameQualIdent", D1("name", QUnq(1, "T")))),
       Node(1, D1("TypeNameString", D1("size", Absent))),
       Node(1, D1("TypeNameBogus", Empty)),
       Node(1, Empty),
       Node(2, D1("TypeNameQualIdent", D1("name", Node(1, Empty)))) >>

ExprInputs ==
    << EInt(1), EIdent(1),
       Node(1, D1("ExprLiteralBool", D1("value", D1("True", Empty)))),
       Node(1, D1("ExprLiteralFloat", D1("value", PyStr("1.5")))),
       Node(1, D1("ExprLiteralString", D1("value", PyStr("s")))),
       Node(3, D1("ExprArray", D1("elts", PyList(<<EInt(1), EIdent(2)>>)))),
       Node(3, D1("ExprArray", D1("elts", PyList(<<>>)))),
       Node(3, D1("ExprBinop", PyDict(<< <<"e1", EInt(1)>>, <<"op", D1("Add", Empty)>>,
                                         <<"e2", EIdent(2)>> >>))),
       Node(3, D1("ExprBinop", PyDict(<< <<"e1", EInt(1)>>, <<"op", D1("Mod", Empty)>>,
                                         <<"e2", EIdent(2)>> >>))),
       Node(3, D1("ExprDot", PyDict(<< <<"e", EIdent(1)>>, <<"id", IdentN(2, "f")>> >>))),
       Node(2, D1("ExprParen", D1("e", EInt(1)))),
       Node(3, D1("ExprStruct", D1("members", PyList(<<
           Node(2, PyDict(<< <<"name", PyStr("m")>>, <<"value", EInt(1)>> >>)) >>)))),
       Node(2, D1("ExprUnop", PyDict(<< <<"op", D1("Minus", Empty)>>, <<"e", EInt(1)>> >>))),
       Node(1, D1("ExprBogus", Empty)),
       Node(1, Empty),
       Node(1, D1("ExprLiteralInt", Empty)),
       Node(2, D1("ExprUnop", D1("e", Node(1, D1("ExprBogus", Empty))))),
       D1("data", Empty) >>

\* optional fields with the decoder of their value: absent, present, and
\* neither
OptionalInputs ==
    << <<Absent, "translate_expr">>,
       <<Some(EInt(1)), "translate_expr">>,
       <<Some(QUnq(1, "a")), "translate_qual_ident">>,
       <<Some(TBool(1)), "translate_type_name">>,
       <<Some(IdentN(1, "{}")), "translate_string">>,
       <<Some(D1("Drop", Empty)), "translate_queue_full">>,
       <<Some(Node(1, D1("ExprBogus", Empty))), "translate_expr">>,
       <<Absent, "translate_qual_ident">>,
       <<Empty, "translate_expr">>,
       <<None, "translate_expr">> >>

\* raw kind objects, each with the decoder it is given to: a key the decoder
\* tests for, the key of the variant it does not test for, a key outside the
\* family, and an object with no key
KindInputs ==
    << <<D1("Sync", Empty), "translate_spec_command_kind">>,
       <<D1("Guarded", Empty), "translate_spec_command_kind">>,
       <<D1("Bogus", Empty), "translate_spec_command_kind">>,
       <<Empty, "translate_spec_command_kind">>,
       <<D1("Fatal", Empty), "translate_severity">>,
       <<D1("WarningLow", Empty), "translate_severity">>,
       <<D1("Bogus", Empty), "translate_severity">>,
       <<Empty, "translate_severity">>,
       <<D1("Block", Empty), "translate_queue_full">>,
       <<D1("Hook", Empty), "translate_queue_full">>,
       <<D1("Bogus", Empty), "translate_queue_full">>,
       <<Empty, "translate_queue_full">>,
       <<Node(1, D1("Orange", Empty)), "translate_limit_kind">>,
       <<Node(1, D1("Red", Empty)), "translate_limit_kind">>,
       <<Node(1, D1("Bogus", Empty)), "translate_limit_kind">>,
       <<Node(1, Empty), "translate_limit_kind">>,
       <<D1("Value", Empty), "formal_param_kind">>,
       <<D1("Ref", Empty), "formal_param_kind">>,
       <<D1("Bogus", Empty), "formal_param_kind">>,
       <<Empty, "formal_param_kind">>,
       <<D1("Public", Empty), "visibility_of">>,
       <<D1("Private", Empty), "visibility_of">>,
       <<D1("Bogus", Empty), "visibility_of">>,
       <<Empty, "visibility_of">> >>

\* all lists of exactly n elements, and of at most n elements, of the sequence
\* core, in a fixed order
RECURSIVE ListsOfLen(_, _)
ListsOfLen(core, n) ==
    IF n = 0 THEN << PyList(<<>>) >>
    ELSE LET shorter == ListsOfLen(core, n - 1)
             k == Len(core)
         IN  [j \in 1..(Len(shorter) * k) |->
                 PyList(Append(shorter[((j - 1) \div k) + 1].items, core[((j - 1) % k) + 1]))]

RECURSIVE ListsUpTo(_, _)
ListsUpTo(core, n) ==
    IF n = 0 THEN ListsOfLen(core, 0)
    ELSE ListsUpTo(core, n - 1) \o ListsOfLen(core, n)

\* one list of one element for every element of the sequence singles
Singletons(singles) == [j \in 1..Len(singles) |-> PyList(<<singles[j]>>)]

D2(k1, v1, k2, v2) == PyDict(<< <<k1, v1>>, <<k2, v2>> >>)
D3(k1, v1, k2, v2, k3, v3) == PyDict(<< <<k1, v1>>, <<k2, v2>>, <<k3, v3>> >>)
Named(n) == D1("name", PyStr(n))

\* a transition expression descriptor with one action
TE(id, target) ==
    Node(id, D2("actions", PyList(<<IdentN(id + 1, "act")>>), "target", QUnq(id + 2, target)))

DefChoiceData ==
    PyDict(<< <<"name", PyStr("c")>>, <<"guard", IdentN(11, "g")>>,
              <<"ifTransition", TE(12, "S")>>, <<"elseTransition", TE(15, "T")>> >>)

StateTransitionData(guard, transitionOrDo) ==
    D3("signal", IdentN(11, "s"), "guard", guard, "transitionOrDo", transitionOrDo)

StateCore ==
    << El(Pre, "DefChoice", Node(10, DefChoiceData), Post),
       El(NoComment, "SpecInitialTransition", Node(20, D1("transition", TE(21, "S"))), NoComment),
       El(Pre, "SpecStateEntry", Node(30, D1("actions", PyList(<<IdentN(31, "a")>>))), NoComment) >>

StateSingles ==
    << El(Pre, "DefState",
          Node(40, D2("name", PyStr("S"), "members", PyList(<<StateCore[2], StateCore[3]>>))), Post),
       El(Pre, "DefState", Node(40, D2("name", PyStr("S"), "members", PyList(<<>>))), Post),
       El(Pre, "SpecStateExit", Node(30, D1("actions", PyList(<<>>))), Post),
       El(Pre, "SpecStateTransition",
          Node(50, StateTransitionData(Absent, D1("Transition", D1("transition", TE(12, "S"))))), Post),
       El(Pre, "SpecStateTransition",
          Node(50, StateTransitionData(Some(IdentN(18, "g")),
                                       D1("Do", D1("actions", PyList(<<IdentN(12, "a")>>))))), Post),
       El(Pre, "SpecStateTransition", Node(50, StateTransitionData(Absent, Empty)), Post),
       El(Pre, "Bogus", Node(60, Empty), Post),
       El(Pre, "DefChoice", Node(10, Named("c")), Post),
       El(Pre, "DefState",
          Node(40, D2("name", PyStr("S"), "members",
                      PyList(<<El(Pre, "Bogus", Node(60, Empty), Post)>>))), Post),
       PyList(<<Pre, Empty, Post>>),
       PyList(<<Pre>>) >>

StateInputs == Singletons(StateSingles) \o ListsUpTo(StateCore, MaxLen)

OptType(n, typeName) == D2("name", PyStr(n), "typeName", typeName)

StateMachineCore ==
    << El(Pre, "DefAction", Node(70, OptType("a", Absent)), Post),
       El(NoComment, "DefChoice", Node(10, DefChoiceData), Post),
       El(Pre, "SpecInitialTransition", Node(20, D1("transition", TE(21, "S"))), NoComment) >>

StateMachineSingles ==
    << El(Pre, "DefAction", Node(70, OptType("a", Some(TBool(71)))), Post),
       El(Pre, "DefGuard", Node(72, OptType("g", Absent)), Post),
       El(Pre, "DefGuard", Node(72, OptType("g", Some(TFloat(73)))), Post),
       El(Pre, "DefSignal", Node(74, OptType("s", Absent)), Post),
       El(Pre, "DefSignal", Node(74, OptType("s", Some(TBool(75)))), Post),
       El(Pre, "DefState",
          Node(40, D2("name", PyStr("S"), "members", PyList(<<StateCore[1]>>))), Post),
       El(Pre, "Bogus", Node(60, Empty), Post),
       El(Pre, "DefAction", Node(70, Named("a")), Post),
       PyList(<<Pre, Empty, Post>>),
       PyList(<<Pre, D2("DefAction", D1("node", Node(70, OptType("a", Absent))),
                        "DefSignal", D1("node", Node(74, OptType("s", Absent)))), Post>>) >>

\* the members field of a state machine: absent, present, or malformed
StateMachineInputs ==
    << Absent, Empty, D1("Some", None), None >>
    \o [j \in 1..Len(StateMachineSingles) |-> Some(PyList(<<StateMachineSingles[j]>>))]
    \o [j \in 1..Len(ListsUpTo(StateMachineCore, MaxLen)) |->
           Some(ListsUpTo(StateMachineCore, MaxLen)[j])]

\* a formal parameter, an enum constant and a struct member, annotated
Param(id, kind) ==
    PyList(<<Pre, Node(id, D3("kind", D1(kind, Empty), "name", PyStr("p"), "typeName", TBool(id + 1))),
             Post>>)
Constant(id, n, value) == PyList(<<Pre, Node(id, D2("name", PyStr(n), "value", value)), Post>>)
StructMember(id, size, format) ==
    PyList(<<Pre, Node(id, PyDict(<< <<"name", PyStr("m")>>, <<"size", size>>,
                                     <<"typeName", TFloat(id + 1)>>, <<"format", format>> >>)),
             Post>>)

DefArrayData(default, format) ==
    PyDict(<< <<"name", PyStr("A")>>, <<"size", EInt(81)>>, <<"eltType", TBool(82)>>,
              <<"default", default>>, <<"format", format>> >>)
DefEnumData(typeName, constants) ==
    D3("name", PyStr("E"), "typeName", typeName, "constants", constants)
DefStructData(members, default) ==
    D3("name", PyStr("S"), "members", members, "default", default)

\* the descriptors of the definitions that modules and components share
DefAbsTypeEl == El(Pre, "DefAbsType", Node(1, Named("T")), Post)
DefAliasTypeEl == El(Pre, "DefAliasType", Node(80, D2("name", PyStr("T"), "typeName", TBool(81))), Post)
DefArrayEl(default, format) == El(Pre, "DefArray", Node(80, DefArrayData(default, format)), Post)
DefConstantEl == El(Pre, "DefConstant", Node(0, D2("name", PyStr("k"), "value", EInt(2))), NoComment)
DefEnumEl(typeName, constants) ==
    El(NoComment, "DefEnum", Node(85, DefEnumData(typeName, constants)), Post)
DefStructEl(members, default) == El(Pre, "DefStruct", Node(90, DefStructData(members, default)), Post)

SharedSingles ==
    << DefAbsTypeEl, DefAliasTypeEl,
       DefArrayEl(Absent, Absent),
       DefArrayEl(Some(EInt(86)), Some(PyStr("{}"))),
       DefEnumEl(Absent, PyList(<<>>)),
       DefEnumEl(Absent, PyList(<<Constant(86, "A", Absent)>>)),
       DefEnumEl(Some(TBool(89)),
                 PyList(<<Constant(86, "A", Some(EInt(87))), Constant(88, "B", Absent)>>)),
       DefStructEl(PyList(<<>>), Absent),
       DefStructEl(PyList(<<StructMember(91, Absent, Absent),
                            StructMember(93, Some(EInt(95)), Some(PyStr("{}")))>>), Some(EInt(96))),
       El(Pre, "Bogus", Node(60, Named("x")), Post),
       El(Pre, "DefConstant", Node(83, Named("k")), Post),
       El(Pre, "DefConstant", Node(83, D2("name", PyStr("k"), "value", Node(84, D1("ExprBogus", Empty)))),
          Post),
       PyList(<<Pre, Empty, Post>>),
       PyList(<<Pre, D1("DefAbsType", Empty), Post>>) >>

SpecCommandData(kind, params, opcode, priority, queueFull) ==
    PyDict(<< <<"kind", D1(kind, Empty)>>, <<"name", PyStr("c")>>, <<"params", params>>,
              <<"opcode", opcode>>, <<"priority", priority>>, <<"queueFull", queueFull>> >>)

GeneralData(kind, size, port, priority, queueFull) ==
    D1("General",
       PyDict(<< <<"kind", D1(kind, Empty)>>, <<"name", PyStr("p")>>, <<"size", size>>,
                 <<"port", port>>, <<"priority", priority>>, <<"queueFull", queueFull>> >>))
SpecialData(inputKind, kind, priority, queueFull) ==
    D1("Special",
       PyDict(<< <<"inputKind", inputKind>>, <<"kind", D1(kind, Empty)>>, <<"name", PyStr("p")>>,
                 <<"priority", priority>>, <<"queueFull", queueFull>> >>))

ComponentCore == << DefAbsTypeEl, DefConstantEl, DefEnumEl(Absent, PyList(<<Constant(86, "A", Absent)>>)) >>

ComponentSingles ==
    << El(Pre, "SpecCommand",
          Node(100, SpecCommandData("Async", PyList(<<Param(101, "Value")>>), Some(EInt(103)),
                                    Absent, Some(D1("Drop", Empty)))), Post),
       El(Pre, "SpecTlmChannel",
          Node(100, PyDict(<< <<"name", PyStr("t")>>, <<"typeName", TBool(101)>>, <<"id", Absent>>,
                              <<"update", Some(D1("Always", Empty))>>, <<"format", Absent>>,
                              <<"low", PyList(<<>>)>>,
                              <<"high", PyList(<<PyList(<<Node(102, D1("Yellow", Empty)),
                                                          EInt(103)>>)>>)>> >>)), Post),
       El(Pre, "SpecEvent",
          Node(100, D3("name", PyStr("e"), "params", PyList(<<>>), "severity", D1("Fatal", Empty))),
          Post),
       El(Pre, "SpecRecord",
          Node(100, PyDict(<< <<"name", PyStr("r")>>, <<"recordType", TBool(101)>>,
                              <<"isArray", PyBool(FALSE)>>, <<"id", Absent>> >>)), Post),
       El(Pre, "SpecContainer",
          Node(100, D3("name", PyStr("c"), "id", Absent, "defaultPriority", Absent)), Post),
       El(Pre, "SpecParam",
          Node(100, PyDict(<< <<"name", PyStr("p")>>, <<"typeName", TBool(101)>>,
                              <<"default", Absent>>, <<"id", Absent>>, <<"setOpcode", Absent>>,
                              <<"saveOpcode", Absent>>, <<"isExternal", PyBool(FALSE)>> >>)), Post),
       El(Pre, "SpecPortMatching",
          Node(100, D2("port1", IdentN(101, "a"), "port2", IdentN(102, "b"))), Post),
       El(Pre, "SpecInternalPort",
          Node(100, PyDict(<< <<"name", PyStr("p")>>, <<"params", PyList(<<>>)>>,
                              <<"priority", Absent>>, <<"queueFull", Absent>> >>)), Post),
       El(Pre, "SpecPortInstance",
          Node(100, GeneralData("Output", Absent, Absent, Absent, Absent)), Post),
       El(Pre, "SpecImportInterface", Node(100, D1("sym", QUnq(101, "I"))), Post) >>

ComponentInputs ==
    Singletons(SharedSingles) \o Singletons(ComponentSingles) \o ListsUpTo(ComponentCore, MaxLen)

InterfaceCore ==
    << NodeEl(Pre, "SpecPortInstance",
              Node(110, GeneralData("SyncInput", Some(EInt(111)), Some(QUnq(112, "P")),
                                    Some(EInt(113)), Some(D1("Block", Empty)))), Post),
       NodeEl(NoComment, "SpecImportInterface", Node(120, D1("sym", QUnq(121, "I"))), NoComment),
       NodeEl(Pre, "SpecPortInstance",
              Node(130, SpecialData(Some(D1("Async", Empty)), "CommandRecv", Absent, Absent)),
              NoComment) >>

InterfaceSingles ==
    << NodeEl(Pre, "SpecPortInstance",
              Node(110, GeneralData("Output", Absent, Absent, Absent, Absent)), Post),
       NodeEl(Pre, "SpecPortInstance",
              Node(130, SpecialData(Absent, "TimeGet", Some(EInt(131)), Some(D1("Hook", Empty)))),
              Post),
       NodeEl(Pre, "SpecPortInstance", Node(110, GeneralData("Bogus", Absent, Absent, Absent, Absent)),
              Post),
       NodeEl(Pre, "SpecPortInstance", Node(130, SpecialData(Absent, "Bogus", Absent, Absent)), Post),
       NodeEl(Pre, "SpecPortInstance",
              Node(130, SpecialData(Some(D1("Bogus", Empty)), "Event", Absent, Absent)), Post),
       NodeEl(Pre, "SpecPortInstance", Node(110, D1("Bogus", Empty)), Post),
       NodeEl(Pre, "SpecPortInstance",
              Node(110, GeneralData("Output", Absent, Some(Node(112, Empty)), Absent, Absent)), Post),
       NodeEl(Pre, "SpecImportInterface", Node(120, Empty), Post),
       NodeEl(Pre, "Bogus", Node(60, Empty), Post),
       D1("node", PyList(<<Pre, Empty, Post>>)),
       PyList(<<Pre, D1("Bogus", D1("node", Node(60, Empty))), Post>>) >>

InterfaceInputs == Singletons(InterfaceSingles) \o ListsUpTo(InterfaceCore, MaxLen)

\* a telemetry channel identifier and a port instance identifier descriptor
TCI(id) == Node(id, D2("componentInstance", QUnq(id + 1, "c"), "channelName", IdentN(id + 2, "ch")))
PII(id) == Node(id, D2("componentInstance", QUnq(id + 1, "c"), "portName", IdentN(id + 2, "p")))

TlmPacketData(pktId, members) ==
    PyDict(<< <<"name", PyStr("P")>>, <<"id", pktId>>, <<"group", EInt(141)>>,
              <<"members", members>> >>)
ChanMember(id) == D1("TlmChannelIdentifier", D1("node", TCI(id)))

TlmPacketSetCore ==
    << NodeEl(Pre, "SpecTlmPacket",
              Node(140, TlmPacketData(Absent, PyList(<<ChanMember(142)>>))), Post),
       NodeEl(NoComment, "SpecTlmPacket",
              Node(150, TlmPacketData(Some(EInt(151)), PyList(<<ChanMember(152), ChanMember(155)>>))),
              NoComment) >>

TlmPacketSetSingles ==
    << NodeEl(Pre, "SpecTlmPacket", Node(140, TlmPacketData(Absent, PyList(<<>>))), Post),
       NodeEl(Pre, "SpecTlmPacket",
              Node(140, TlmPacketData(Absent, PyList(<<D1("SpecInclude", Empty)>>))), Post),
       NodeEl(Pre, "SpecInclude", Node(160, D1("file", IdentN(161, "f.fppi"))), Post),
       NodeEl(Pre, "Bogus", Node(60, Empty), Post),
       NodeEl(Pre, "SpecTlmPacket", Node(140, Named("P")), Post),
       D1("node", PyList(<<Pre, Empty, Post>>)),
       PyList(<<Pre, D1("SpecTlmPacket", Empty), Post>>) >>

TlmPacketSetInputs == Singletons(TlmPacketSetSingles) \o ListsUpTo(TlmPacketSetCore, MaxLen)

ConnectionData(fromIndex, toIndex) ==
    PyDict(<< <<"isUnmatched", PyBool(FALSE)>>, <<"fromPort", PII(171)>>, <<"fromIndex", fromIndex>>,
              <<"toPort", PII(174)>>, <<"toIndex", toIndex>> >>)
DirectData(connections) == D1("Direct", D2("name", PyStr("G"), "connections", connections))
PatternData(kind, targets) ==
    D1("Pattern", D3("kind", D1(kind, Empty), "source", QUnq(181, "s"), "targets", targets))
TlmPacketSetData(members, omitted) ==
    D3("name", PyStr("PS"), "members", members, "omitted", omitted)

TopologyCore ==
    << El(Pre, "SpecCompInstance",
          Node(165, D2("visibility", D1("Public", Empty), "instance", QUnq(166, "i"))), Post),
       El(NoComment, "SpecTopImport", Node(167, D1("sym", QUnq(168, "T"))), NoComment),
       El(Pre, "SpecConnectionGraph",
          Node(170, DirectData(PyList(<<ConnectionData(Absent, Some(EInt(177)))>>))), NoComment) >>

TopologySingles ==
    << El(Pre, "SpecCompInstance",
          Node(165, D2("visibility", D1("Private", Empty), "instance", QUnq(166, "i"))), Post),
       El(Pre, "SpecConnectionGraph", Node(170, DirectData(PyList(<<>>))), Post),
       El(Pre, "SpecConnectionGraph",
          Node(170, DirectData(PyList(<<ConnectionData(Some(EInt(177)), Absent),
                                        ConnectionData(Absent, Absent)>>))), Post),
       El(Pre, "SpecConnectionGraph",
          Node(180, PatternData("Command", PyList(<<QUnq(182, "a"), QUnq(183, "b")>>))), Post),
       El(Pre, "SpecConnectionGraph", Node(180, PatternData("Bogus", PyList(<<>>))), Post),
       El(Pre, "SpecConnectionGraph", Node(180, D1("Bogus", Empty)), Post),
       El(Pre, "SpecConnectionGraph",
          Node(170, DirectData(PyList(<<ConnectionData(Empty, Absent)>>))), Post),
       El(Pre, "SpecInclude", Node(160, D1("file", IdentN(161, "f.fppi"))), Post),
       El(Pre, "SpecTlmPacketSet",
          Node(190, TlmPacketSetData(PyList(<<TlmPacketSetCore[1]>>), PyList(<<TCI(191)>>))), Post),
       El(Pre, "SpecTlmPacketSet", Node(190, TlmPacketSetData(PyList(<<>>), PyList(<<>>))), Post),
       El(Pre, "Bogus", Node(60, Empty), Post),
       El(Pre, "SpecTopImport", Node(167, Empty), Post),
       PyList(<<Pre, Empty, Post>>),
       PyList(<<Pre>>) >>

TopologyInputs == Singletons(TopologySingles) \o ListsUpTo(TopologyCore, MaxLen)

DefComponentData(kind, members) ==
    D3("kind", D1(kind, Empty), "name", PyStr("C"), "members", members)
DefComponentInstanceData(implType, queueSize, initSpecs) ==
    PyDict(<< <<"name", PyStr("i")>>, <<"component", QUnq(201, "C")>>, <<"baseId", EInt(202)>>,
              <<"implType", implType>>, <<"file", Absent>>, <<"queueSize", queueSize>>,
              <<"stackSize", Absent>>, <<"priority", Absent>>, <<"cpu", Absent>>,
              <<"initSpecs", initSpecs>> >>)
InitSpec(id) == PyList(<<Pre, Node(id, D2("phase", EInt(id + 1), "code", PyStr("code"))), Post>>)
DefPortData(params, returnType) ==
    D3("name", PyStr("P"), "params", params, "returnType", returnType)
Members(n, members) == D2("name", PyStr(n), "members", members)

ModuleCore ==
    << DefConstantEl, DefAbsTypeEl,
       El(Pre, "DefModule", Node(210, Members("M", PyList(<<DefConstantEl>>))), NoComment) >>

ModuleSingles ==
    << El(Pre, "DefComponent",
          Node(200, DefComponentData("Active", PyList(<<DefAbsTypeEl, DefConstantEl>>))), Post),
       El(Pre, "DefComponent", Node(200, DefComponentData("Passive", PyList(<<>>))), Post),
       El(Pre, "DefComponent", Node(200, DefComponentData("Queued", PyList(<<>>))), Post),
       El(Pre, "DefComponent", Node(200, DefComponentData("Bogus", PyList(<<>>))), Post),
       El(Pre, "DefComponent",
          Node(200, DefComponentData("Active", PyList(<<ComponentSingles[3]>>))), Post),
       El(Pre, "DefComponentInstance",
          Node(200, DefComponentInstanceData(Absent, Absent, PyList(<<>>))), Post),
       El(Pre, "DefComponentInstance",
          Node(200, DefComponentInstanceData(Some(PyStr("Impl")), Some(EInt(203)),
                                             PyList(<<InitSpec(204), InitSpec(206)>>))), Post),
       El(Pre, "DefInterface", Node(200, Members("I", PyList(<<InterfaceCore[1], InterfaceCore[2]>>))),
          Post),
       El(Pre, "DefModule", Node(210, Members("M", PyList(<<>>))), Post),
       El(Pre, "DefModule",
          Node(210, Members("M", PyList(<<El(Pre, "Bogus", Node(60, Named("x")), Post)>>))), Post),
       El(Pre, "DefPort", Node(200, DefPortData(PyList(<<>>), Absent)), Post),
       El(Pre, "DefPort",
          Node(200, DefPortData(PyList(<<Param(101, "Value"), Param(103, "Ref")>>), Some(TBool(105)))),
          Post),
       El(Pre, "DefStateMachine", Node(200, Members("SM", Absent)), Post),
       El(Pre, "DefStateMachine", Node(200, Members("SM", Some(PyList(<<>>)))), Post),
       El(Pre, "DefStateMachine",
          Node(200, Members("SM", Some(PyList(<<StateMachineCore[1], StateMachineCore[2]>>)))), Post),
       El(Pre, "DefTopology", Node(200, Members("T", PyList(<<TopologyCore[1], TopologyCore[3]>>))),
          Post),
       El(Pre, "DefTopology", Node(200, Members("T", PyList(<<TopologySingles[9]>>))), Post),
       El(Pre, "SpecInclude", Node(160, D1("file", IdentN(161, "f.fppi"))), Post),
       El(Pre, "SpecLoc",
          Node(220, D3("kind", D1("Component", Empty), "symbol", QUnq(221, "C"),
                       "file", IdentN(222, "C.fpp"))), Post),
       El(Pre, "SpecInclude", Node(160, D2("file", IdentN(161, "f.fppi"), "name", PyStr("n"))), Post),
       El(Pre, "SpecLoc", Node(220, Named("n")), Post),
       El(Pre, "Bogus", Node(60, Empty), Post),
       PyList(<<Pre, D2("DefAbsType", D1("node", Node(80, Named("T"))),
                        "DefConstant", D1("node", Node(83, D2("name", PyStr("k"), "value", EInt(84))))),
                Post>>),
       PyList(<<Pre>>) >>

ModuleInputs ==
    Singletons(SharedSingles) \o Singletons(ModuleSingles) \o ListsUpTo(ModuleCore, MaxLen)
    \o << PyList(<<DefConstantEl, ModuleSingles[18]>>),
          PyList(<<DefConstantEl, ModuleSingles[19]>>),
          PyList(<<DefConstantEl, ModuleSingles[22]>>),
          None >>

\* The end-to-end scenario: a module M whose one member is a constant with
\* node id 5 and the integer literal 3 as its value, and the location map
\* that holds id 5 with a null includingLoc.
ScenarioAst ==
    PyList(<<D1("members",
                PyList(<<El(Pre, "DefModule",
                            Node(4, Members("M", PyList(<<El(Pre, "DefConstant",
                                                             Node(5, D2("name", PyStr("k"),
                                                                        "value", EInt(6))),
                                                             Post)>>))),
                            Post)>>))>>)
ScenarioMap ==
    D1("5", D3("file", PyStr("a.fpp"), "pos", PyStr("1:1"), "includingLoc", None))

\* AST files: a JSON list of translation units, each a dict of member lists
AstFiles ==
    << NoFile,
       ScenarioAst,
       PyList(<<>>),
       PyList(<<D1("members", PyList(<<DefConstantEl>>))>>),
       PyList(<<D1("members", PyList(<<DefConstantEl, DefAbsTypeEl>>)),
                D1("members", PyList(<<ModuleCore[3]>>))>>),
       PyList(<<D1("members", PyList(<<DefAbsTypeEl>>)),
                D1("members", PyList(<<ModuleSingles[18]>>)),
                D1("members", PyList(<<DefConstantEl>>))>>),
       PyList(<<PyList(<<DefConstantEl>>), PyStr("x"), D1("members", PyList(<<>>))>>),
       PyList(<<D2("a", PyList(<<DefAbsTypeEl>>), "b", PyList(<<ModuleSingles[22]>>))>>),
       D1("members", PyList(<<DefConstantEl>>)),
       None >>

\* the Locations that callers put, and the entries of a location-map file
\* that load as the same Locations
LocA == Location(Path(PyStr("a.fpp")), PyStr("1.1"), PyStr("None"))
LocB == Location(Path(PyStr("b.fpp")), PyStr("2.3"), PyStr("1.1"))
Locs == <<LocA, LocB>>
Entry(file, pos, includingLoc) ==
    D3("file", PyStr(file), "pos", PyStr(pos), "includingLoc", PyStr(includingLoc))
EntryA == Entry("./a.fpp", "1.1", "None")
EntryB == Entry("b.fpp", "2.3", "1.1")

LocationMapFiles ==
    << NoFile,
       Empty,
       D1("0", EntryA),
       D2("0", EntryB, "1", EntryA),
       D1("1", EntryB),
       D2("0", EntryA, "1", D2("file", PyStr("b.fpp"), "pos", PyStr("2.3"))),
       D2("1", EntryB, "0", D1("pos", PyStr("1.1"))),
       D2("1", EntryA, "x", EntryB),
       D1("0", PyStr("a.fpp")),
       PyList(<<>>) >>

\* the node lists handed to the builder: identifier nodes, outermost first
IdentNodes == [j \in 1..(MaxLen + 1) |-> AstNode(PyStr(<<"a", "b", "c", "d", "e">>[j]), PyInt(j - 1))]
NodeLists == [j \in 1..(MaxLen + 2) |-> PyList(SubSeq(IdentNodes, 1, j - 1))]
    \o << PyList(<<IdentNodes[2]>>), PyList(<<IdentNodes[2], IdentNodes[1]>>) >>

Unqualified(n) == [t |-> "Unqualified", name |-> n]
Qualified(q, n) == [t |-> "Qualified", qualifier |-> q, name |-> n]
QualIdents ==
    << Unqualified(PyStr("a")),
       Qualified(AstNode(Unqualified(PyStr("a")), PyInt(0)), AstNode(PyStr("b"), PyInt(1))),
       Qualified(AstNode(Qualified(AstNode(Unqualified(PyStr("a")), PyInt(0)),
                                   AstNode(PyStr("b"), PyInt(1))), PyInt(1)),
                 AstNode(PyStr("c"), PyInt(2))) >>

Init ==
    /\ _map = <<>>
    /\ _next_id = 0
    /\ call = [fn |-> "init", arg |-> None]
    /\ ret = None
    /\ node_list = PyList(<<>>)
    /\ printed = <<>>
    /\ loaded = NoFile

\* a call that prints nothing but draws a fresh id from the counter
DrawsFreshId ==
    /\ node_list' = PyList(<<>>)
    /\ printed' = <<>>
    /\ _next_id' = get_id(_next_id).next_id
    /\ UNCHANGED <<_map, loaded>>

\* a call that prints nothing and leaves the registry and the counter alone
Pure ==
    /\ node_list' = PyList(<<>>)
    /\ printed' = <<>>
    /\ UNCHANGED <<_map, _next_id, loaded>>

TranslateQualIdent ==
    \E i \in 1..Len(QualIdentInputs) :
        /\ call' = [fn |-> "translate_qual_ident", arg |-> QualIdentInputs[i]]
        /\ ret' = Call("translate_qual_ident", QualIdentInputs[i])
        /\ Pure

TranslateTypeName ==
    \E i \in 1..Len(TypeNameInputs) :
        /\ call' = [fn |-> "translate_type_name", arg |-> TypeNameInputs[i]]
        /\ ret' = Call("translate_type_name", TypeNameInputs[i])
        /\ Pure

TranslateExpr ==
    \E i \in 1..Len(ExprInputs) :
        /\ call' = [fn |-> "translate_expr", arg |-> ExprInputs[i]]
        /\ ret' = Call("translate_expr", ExprInputs[i])
        /\ Pure

TranslateStateMembers ==
    \E i \in 1..Len(StateInputs) :
        /\ call' = [fn |-> "translate_state_members", arg |-> StateInputs[i]]
        /\ ret' = Call("translate_state_members", StateInputs[i])
        /\ Pure

TranslateStateMachineMembers ==
    \E i \in 1..Len(StateMachineInputs) :
        /\ call' = [fn |-> "translate_state_machine_members", arg |-> StateMachineInputs[i]]
        /\ ret' = Call("translate_state_machine_members", StateMachineInputs[i])
        /\ Pure

TranslateComponentMembers ==
    \E i \in 1..Len(ComponentInputs) :
        /\ call' = [fn |-> "translate_component_members", arg |-> ComponentInputs[i]]
        /\ ret' = Call("translate_component_members", ComponentInputs[i])
        /\ Pure

TranslateInterfaceMembers ==
    \E i \in 1..Len(InterfaceInputs) :
        /\ call' = [fn |-> "translate_interface_members", arg |-> InterfaceInputs[i]]
        /\ ret' = Call("translate_interface_members", InterfaceInputs[i])
        /\ Pure

TranslateTlmPacketSetMembers ==
    \E i \in 1..Len(TlmPacketSetInputs) :
        /\ call' = [fn |-> "translate_tlm_packet_set_members", arg |-> TlmPacketSetInputs[i]]
        /\ ret' = Call("translate_tlm_packet_set_members", TlmPacketSetInputs[i])
        /\ Pure

TranslateTopologyMembers ==
    \E i \in 1..Len(TopologyInputs) :
        /\ call' = [fn |-> "translate_topology_members", arg |-> TopologyInputs[i]]
        /\ ret' = Call("translate_topology_members", TopologyInputs[i])
        /\ Pure

TranslateModuleMembers ==
    \E i \in 1..Len(ModuleInputs) :
        /\ call' = [fn |-> "translate_module_members", arg |-> ModuleInputs[i]]
        /\ ret' = Call("translate_module_members", ModuleInputs[i])
        /\ Pure

\* translate_optional(d, func), func being one of the module's decoders
TranslateOptional ==
    \E i \in 1..Len(OptionalInputs) :
        /\ call' = [fn |-> "translate_optional", arg |-> OptionalInputs[i][1],
                    func |-> OptionalInputs[i][2]]
        /\ ret' = translate_optional(OptionalInputs[i][1], OptionalInputs[i][2])
        /\ Pure

\* a kind decoder on a raw kind object
TranslateKind ==
    \E i \in 1..Len(KindInputs) :
        /\ call' = [fn |-> KindInputs[i][2], arg |-> KindInputs[i][1]]
        /\ ret' = kind_of(KindInputs[i][2], KindInputs[i][1])
        /\ Pure

\* translate_ast_json prints every member list it has decoded
TranslateAstJson ==
    \E i \in 1..Len(AstFiles) :
        LET r == translate_ast_json(AstFiles[i])
        IN  /\ call' = [fn |-> "translate_ast_json", arg |-> AstFiles[i]]
            /\ ret' = r.ret
            /\ printed' = r.printed
            /\ node_list' = PyList(<<>>)
            /\ UNCHANGED <<_map, _next_id, loaded>>

NextTranslator ==
    \/ TranslateModuleMembers
    \/ TranslateAstJson
    \/ TranslateTlmPacketSetMembers
    \/ TranslateTopologyMembers
    \/ TranslateComponentMembers
    \/ TranslateInterfaceMembers
    \/ TranslateStateMembers
    \/ TranslateStateMachineMembers
    \/ TranslateQualIdent
    \/ TranslateTypeName
    \/ TranslateExpr
    \/ TranslateOptional
    \/ TranslateKind

SpecTranslator == Init /\ [][NextTranslator]_vars

\* Locations.put(id, loc)
LocationsPut ==
    \E id \in 0..MaxId, j \in 1..Len(Locs) :
        /\ call' = [fn |-> "put", arg |-> PyTuple(<<PyInt(id), Locs[j]>>)]
        /\ _map' = put(_map, id, Locs[j])
        /\ ret' = None
        /\ loaded' = NoFile
        /\ node_list' = PyList(<<>>)
        /\ printed' = <<>>
        /\ UNCHANGED _next_id

LocationsGet ==
    \E id \in 0..MaxId :
        /\ call' = [fn |-> "get", arg |-> PyInt(id)]
        /\ ret' = get(_map, id)
        /\ Pure

LocationsGetOpt ==
    \E id \in 0..MaxId :
        /\ call' = [fn |-> "get_opt", arg |-> PyInt(id)]
        /\ ret' = get_opt(_map, id)
        /\ Pure

LocationsGetMap ==
    /\ call' = [fn |-> "get_map", arg |-> None]
    /\ ret' = get_map(_map)
    /\ Pure

\* The caller sets an entry of the dict that get_map, or the bulk load, has
\* returned: the registry changes with it when that dict is Locations._map.
ReturnedMapSetItem ==
    /\ call.fn \in {"get_map", "translate_location_map_json"}
    /\ ~IsRaise(ret)
    /\ \E id \in 0..MaxId, j \in 1..Len(Locs) :
        /\ call' = [fn |-> "setitem", arg |-> PyTuple(<<PyInt(id), Locs[j]>>)]
        /\ _map' = IF ret.shared THEN put(_map, id, Locs[j]) ELSE _map
        /\ loaded' = IF ret.shared THEN NoFile ELSE loaded
        /\ ret' = None
        /\ node_list' = PyList(<<>>)
        /\ printed' = <<>>
        /\ UNCHANGED _next_id

\* the bulk load; a load that raises has written the entries before the bad one
TranslateLocationMapJson ==
    \E i \in 1..Len(LocationMapFiles) :
        LET r == translate_location_map_json(LocationMapFiles[i], _map)
        IN  /\ call' = [fn |-> "translate_location_map_json", arg |-> LocationMapFiles[i]]
            /\ ret' = r.ret
            /\ _map' = r.map
            /\ loaded' = IF IsRaise(r.ret) THEN NoFile ELSE LocationMapFiles[i]
            /\ node_list' = PyList(<<>>)
            /\ printed' = <<>>
            /\ UNCHANGED _next_id

\* AstNode.get_id()
GetId ==
    /\ _next_id < MaxFresh
    /\ call' = [fn |-> "get_id", arg |-> None]
    /\ ret' = PyInt(get_id(_next_id).id)
    /\ _next_id' = get_id(_next_id).next_id
    /\ node_list' = PyList(<<>>)
    /\ printed' = <<>>
    /\ UNCHANGED <<_map, loaded>>

\* AstNode.create(data)
Create ==
    /\ _next_id < MaxFresh
    /\ \E i \in 1..Len(QualIdents) :
        /\ call' = [fn |-> "create", arg |-> QualIdents[i]]
        /\ ret' = create(QualIdents[i], _next_id).node
        /\ _next_id' = create(QualIdents[i], _next_id).next_id
        /\ node_list' = PyList(<<>>)
        /\ printed' = <<>>
        /\ UNCHANGED <<_map, loaded>>

\* a builder call that touches only the caller's list
Split ==
    \E i \in 1..Len(NodeLists) :
        /\ call' = [fn |-> "split", arg |-> NodeLists[i]]
        /\ ret' = split(NodeLists[i]).ret
        /\ node_list' = split(NodeLists[i]).node_list
        /\ printed' = <<>>
        /\ UNCHANGED <<_map, _next_id, loaded>>

Qualifier ==
    \E i \in 1..Len(NodeLists) :
        /\ call' = [fn |-> "qualifier", arg |-> NodeLists[i]]
        /\ ret' = qualifier(NodeLists[i])
        /\ node_list' = split(NodeLists[i]).node_list
        /\ printed' = <<>>
        /\ UNCHANGED <<_map, _next_id, loaded>>

Name ==
    \E i \in 1..Len(NodeLists) :
        /\ call' = [fn |-> "name", arg |-> NodeLists[i]]
        /\ ret' = name(NodeLists[i])
        /\ node_list' = split(NodeLists[i]).node_list
        /\ printed' = <<>>
        /\ UNCHANGED <<_map, _next_id, loaded>>

QualIdentFromNodeList ==
    \E i \in 1..Len(NodeLists) :
        /\ call' = [fn |-> "qual_ident_from_node_list", arg |-> NodeLists[i]]
        /\ ret' = qual_ident_from_node_list(NodeLists[i]).ret
        /\ node_list' = qual_ident_from_node_list(NodeLists[i]).node_list
        /\ printed' = <<>>
        /\ UNCHANGED <<_map, _next_id, loaded>>

NodeFromNodeList ==
    \E i \in 1..Len(NodeLists) :
        LET r == node_from_node_list(NodeLists[i], _map, _next_id)
        IN  /\ r.next_id <= MaxFresh
            /\ call' = [fn |-> "node_from_node_list", arg |-> NodeLists[i]]
            /\ ret' = r.ret
            /\ node_list' = r.node_list
            /\ _map' = r.map
            /\ _next_id' = r.next_id
            /\ loaded' = IF r.map = _map THEN loaded ELSE NoFile
            /\ printed' = <<>>

ToIdentList ==
    \E i \in 1..Len(QualIdents) :
        /\ call' = [fn |-> "to_ident_list", arg |-> QualIdents[i]]
        /\ ret' = to_ident_list(QualIdents[i])
        /\ Pure

\* the registry, the counter, the builder and the two file readers
Next ==
    \/ TranslateLocationMapJson
    \/ TranslateAstJson
    \/ LocationsPut
    \/ LocationsGet
    \/ LocationsGetOpt
    \/ LocationsGetMap
    \/ ReturnedMapSetItem
    \/ GetId
    \/ Create
    \/ Split
    \/ Qualifier
    \/ Name
    \/ QualIdentFromNodeList
    \/ NodeFromNodeList
    \/ ToIdentList

Spec == Init /\ [][Next]_vars

----------------------------------------------------------------------------
(* Properties of the translator *)

\* The closed variant set of each family: the keys its decoder names in its
\* match statement or if/elif chain.
Variants(fn) ==
    CASE fn = "translate_module_members" ->
           {"DefAbsType", "DefAliasType", "DefArray", "DefComponent", "DefComponentInstance",
            "DefConstant", "DefEnum", "DefInterface", "DefModule", "DefPort",
            "DefStateMachine", "DefStruct", "DefTopology", "SpecInclude", "SpecLoc"}
      [] fn = "translate_component_members" ->
           {"DefAbsType", "DefAliasType", "DefArray", "DefConstant", "DefEnum"}
           \cup UndefinedComponentMembers
      [] fn = "translate_state_members" ->
           {"DefChoice", "DefState", "SpecStateEntry", "SpecStateExit",
            "SpecInitialTransition", "SpecStateTransition"}
      [] fn = "translate_state_machine_members" ->
           {"DefAction", "DefChoice", "DefGuard", "DefSignal", "DefState",
            "SpecInitialTransition"}
      [] fn = "translate_interface_members" -> {"SpecPortInstance", "SpecImportInterface"}
      [] fn = "translate_topology_members" ->
           {"SpecCompInstance", "SpecConnectionGraph", "SpecInclude", "SpecTlmPacketSet",
            "SpecTopImport"}
      [] fn = "translate_tlm_packet_set_members" -> {"SpecTlmPacket", "SpecInclude"}
      [] fn = "translate_expr" ->
           {"ExprArray", "ExprBinop", "ExprDot", "ExprIdent", "ExprLiteralBool",
            "ExprLiteralInt", "ExprLiteralFloat", "ExprLiteralString", "ExprParen",
            "ExprStruct", "ExprUnop"}
      [] fn = "translate_type_name" ->
           {"TypeNameFloat", "TypeNameInt", "TypeNameQualIdent", "TypeNameBool",
            "TypeNameString"}

\* the decoders of member lists, and those of single nodes
ListFamilies ==
    {"translate_module_members", "translate_component_members", "translate_state_members",
     "translate_state_machine_members", "translate_interface_members",
     "translate_topology_members", "translate_tlm_packet_set_members"}
NodeFamilies == {"translate_expr", "translate_type_name"}

\* The raw elements a list decoder is given: the state machine decoder is
\* given the optional field itself, the others the list.
RawList(fn, arg) ==
    IF fn = "translate_state_machine_members"
    THEN (IF arg.t = "dict" /\ HasKey(arg, "Some") /\ Lookup(arg, "Some").t = "list"
          THEN Lookup(arg, "Some").items ELSE <<>>)
    ELSE (IF arg.t = "list" THEN arg.items ELSE <<>>)

\* the argument that holds the first n raw elements of arg
Prefix(fn, arg, n) ==
    IF fn = "translate_state_machine_members"
    THEN Some(PyList(SubSeq(RawList(fn, arg), 1, n)))
    ELSE PyList(SubSeq(RawList(fn, arg), 1, n))

\* The annotated triple [pre, tagged, post] of a raw element m: interface
\* and telemetry packet set members hold it under "node".
Triple(fn, m) ==
    IF fn \in {"translate_interface_members", "translate_tlm_packet_set_members"}
    THEN GetItem(m, "node") ELSE m

\* the variant key of a raw element m of family fn, or of a node descriptor
VariantKey(fn, m) ==
    IF fn \in NodeFamilies THEN FirstKey(read_data(m))
    ELSE FirstKey(GetIndex(Triple(fn, m), 1))

\* m carries a variant key, and one the family does not know
UnknownVariant(fn, m) ==
    /\ ~IsRaise(VariantKey(fn, m))
    /\ VariantKey(fn, m).str \notin Variants(fn)

Raises(r, exc) == IsRaise(r) /\ r.exc = exc

\* C1: a family decoder given a descriptor whose variant key is outside the
\* family's closed variant set raises InvalidFppToJsonField: a node decoder
\* on the descriptor itself, a list decoder on a list whose members before
\* the unknown one decode.
C1_UnknownTagRejected ==
    /\ call.fn \in NodeFamilies /\ UnknownVariant(call.fn, call.arg)
           => Raises(ret, "InvalidFppToJsonField")
    /\ call.fn \in ListFamilies
           => \A i \in 1..Len(RawList(call.fn, call.arg)) :
                  (/\ UnknownVariant(call.fn, RawList(call.fn, call.arg)[i])
                   /\ ~IsRaise(Call(call.fn, Prefix(call.fn, call.arg, i - 1))))
                  => Raises(ret, "InvalidFppToJsonField")

\* a module member whose single key is SpecInclude or SpecLoc and whose node
\* data has the fields of that construct, and no name
ExcludedMember(m) ==
    /\ GetIndex(m, 1).t = "dict"
    /\ Len(GetIndex(m, 1).kv) = 1
    /\ FirstKey(GetIndex(m, 1)).str \in {"SpecInclude", "SpecLoc"}
    /\ read_data(Sub(GetIndex(m, 1), FirstKey(GetIndex(m, 1)).str, "node")).t = "dict"
    /\ ~HasKey(read_data(Sub(GetIndex(m, 1), FirstKey(GetIndex(m, 1)).str, "node")), "name")

\* C2: translate_module_members on a list that holds a SpecInclude or SpecLoc
\* member, the members before it decoding, raises
\* NotSupportedInFppToJsonException.
C2_ExcludedTagRejected ==
    call.fn = "translate_module_members"
        => \A i \in 1..Len(RawList(call.fn, call.arg)) :
               (/\ ExcludedMember(RawList(call.fn, call.arg)[i])
                /\ ~IsRaise(Call(call.fn, Prefix(call.fn, call.arg, i - 1))))
               => Raises(ret, "NotSupportedInFppToJsonException")

\* The fields fpp_ast.py declares as AstNode[...], by class.
AstNodeFields ==
    {<<"DefChoice", "guard">>, <<"DefChoice", "if_transition">>,
     <<"DefChoice", "else_transition">>, <<"SpecInitialTransition", "transition">>,
     <<"Transition", "transition">>, <<"TransitionExpr", "target">>,
     <<"Connection", "fromPort">>, <<"Connection", "toPort">>,
     <<"PortInstanceIdentifier", "component_instance">>,
     <<"PortInstanceIdentifier", "port_name">>,
     <<"TlmChannelIdentifier", "component_instance">>,
     <<"TlmChannelIdentifier", "channel_name">>,
     <<"TlmPacketMemberTlmChannelIdentifier", "node">>,
     <<"Pattern", "source">>, <<"SpecImport", "sym">>, <<"SpecStateTransition", "signal">>}

\* In v, every field declared an AstNode holds an AstNode, and no AstNode
\* wraps another.
RECURSIVE OneWrapper(_)
OneWrapper(v) ==
    CASE v.t \in {"None", "str", "int", "bool", "enum", "dict"} -> TRUE
      [] v.t = "list" -> \A i \in 1..Len(v.items) : OneWrapper(v.items[i])
      [] v.t = "tuple" -> \A i \in 1..Len(v.tup) : OneWrapper(v.tup[i])
      [] v.t = "AstNode" -> v.data.t # "AstNode" /\ OneWrapper(v.data)
      [] OTHER -> \A f \in DOMAIN v \ {"t"} :
                      /\ <<v.t, f>> \in AstNodeFields => v[f].t = "AstNode"
                      /\ OneWrapper(v[f])

TranslatorCalls == ListFamilies \cup NodeFamilies \cup {"translate_qual_ident"}

\* C3: what a decoder returns carries the id of the descriptor it was decoded
\* from, and holds exactly one AstNode in every position declared an AstNode.
C3_IdentityCarryOver ==
    (call.fn \in TranslatorCalls /\ ~IsRaise(ret))
        => /\ (call.fn \in NodeFamilies \cup {"translate_qual_ident"} /\ ret.t = "AstNode")
                  => ret._id = read_id(call.arg)
           /\ OneWrapper(ret)

\* an optional field as fpp-to-json writes it: "None", or {"Some": value}
IsAbsent(d) == d = Absent
IsPresent(d) == d.t = "dict" /\ HasKey(d, "Some")

\* a decoded member, out of its annotation when it has one
Unwrap(x) == IF x.t = "list" THEN x.items[1].tup[2] ELSE x

\* the raw connections of a raw topology member m, when it is a direct
\* connection graph, and no connections otherwise
RawConnections(m) ==
    IF /\ ~IsRaise(VariantKey("translate_topology_members", m))
       /\ VariantKey("translate_topology_members", m).str = "SpecConnectionGraph"
       /\ ~IsRaise(Sub(read_data(Sub(GetIndex(m, 1), "SpecConnectionGraph", "node")),
                       "Direct", "connections"))
    THEN Sub(read_data(Sub(GetIndex(m, 1), "SpecConnectionGraph", "node")),
             "Direct", "connections").items
    ELSE <<>>

\* a raw optional field d and its decoding v agree on presence
SamePresence(d, v) ==
    /\ IsAbsent(d) => v = None
    /\ IsPresent(d) => v # None

\* C5: an absent optional field decodes to absent without raising and a
\* present one never decodes to absent: through translate_optional, in the
\* indices of a direct connection, and in the members of a state machine.
C5_OptionalFidelity ==
    /\ call.fn = "translate_optional"
           => /\ IsAbsent(call.arg) => ret = None
              /\ (IsPresent(call.arg) /\ ~IsRaise(ret)) => ret # None
    /\ (call.fn = "translate_topology_members" /\ ~IsRaise(ret))
           => \A i \in 1..Len(RawList(call.fn, call.arg)) :
                  \A j \in 1..Len(RawConnections(RawList(call.fn, call.arg)[i])) :
                      LET c == RawConnections(RawList(call.fn, call.arg)[i])[j]
                          decoded == Unwrap(ret.items[i]).node.data.connections.items[j]
                      IN  /\ SamePresence(GetItem(c, "fromIndex"), decoded.fromIndex)
                          /\ SamePresence(GetItem(c, "toIndex"), decoded.toIndex)
    /\ call.fn = "translate_state_machine_members"
           => /\ IsAbsent(call.arg) => ~IsRaise(ret)
              /\ (IsPresent(call.arg) /\ ~IsRaise(ret)) => ret # None

\* The list fields of the definitions: raw key, raw field, decoded field.
ListFields ==
    {<<"DefEnum", "constants", "constants">>, <<"DefStruct", "members", "members">>,
     <<"DefPort", "params", "params">>,
     <<"DefComponentInstance", "initSpecs", "init_specs">>}

\* C6: a list decoder that returns gives a list with one entry per raw
\* element; and the list field of a definition (the constants of a DefEnum,
\* the members of a DefStruct, the params of a DefPort, the init specs of a
\* component instance) decodes to one entry per raw element.
C6_OneNodePerElement ==
    (call.fn \in ListFamilies /\ ~IsRaise(ret))
        => /\ ret.t = "list"
           /\ Len(ret.items) = Len(RawList(call.fn, call.arg))
           /\ (/\ call.fn \in {"translate_module_members", "translate_component_members"}
               /\ Len(RawList(call.fn, call.arg)) = 1)
                  => \A lf \in ListFields :
                         VariantKey(call.fn, RawList(call.fn, call.arg)[1]) = PyStr(lf[1])
                             => Len(Unwrap(ret.items[1]).node.data[lf[3]].items)
                                = Len(GetItem(read_data(Sub(GetIndex(RawList(call.fn, call.arg)[1], 1),
                                                            lf[1], "node")), lf[2]).items)

AnnotatedFamilies == ListFamilies \ {"translate_tlm_packet_set_members"}

\* x is a one-element list holding a triple
IsAnnotated(x) ==
    /\ x.t = "list"
    /\ Len(x.items) = 1
    /\ x.items[1].t = "tuple"
    /\ Len(x.items[1].tup) = 3

\* C7: every decoded member of an annotated list is a one-element list
\* holding the triple (pre, value, post), pre and post being the comments of
\* the raw element.
C7_AnnotatedList ==
    (call.fn \in AnnotatedFamilies /\ ~IsRaise(ret) /\ ret.t = "list")
        => \A i \in 1..Len(ret.items) :
               /\ IsAnnotated(ret.items[i])
               /\ Len(ret.items) = Len(RawList(call.fn, call.arg))
                      => /\ ret.items[i].items[1].tup[1]
                            = GetIndex(Triple(call.fn, RawList(call.fn, call.arg)[i]), 0)
                         /\ ret.items[i].items[1].tup[3]
                            = GetIndex(Triple(call.fn, RawList(call.fn, call.arg)[i]), 2)

----------------------------------------------------------------------------
(* Properties of the registry and the builder *)

\* the ids of the AstNodes in a decoded value
RECURSIVE NodeIds(_)
NodeIds(v) ==
    CASE v.t \in {"None", "str", "int", "bool", "enum", "dict"} -> {}
      [] v.t = "list" -> UNION {NodeIds(v.items[i]) : i \in 1..Len(v.items)}
      [] v.t = "tuple" -> UNION {NodeIds(v.tup[i]) : i \in 1..Len(v.tup)}
      [] v.t = "AstNode" ->
           (IF v._id.t = "int" THEN {v._id.int} ELSE {}) \cup NodeIds(v.data)
      [] OTHER -> UNION {NodeIds(v[f]) : f \in DOMAIN v \ {"t"}}

\* the ids of the nodes translate_ast_json has decoded
DecodedIds == UNION {NodeIds(printed[i]) : i \in 1..Len(printed)}

\* the location-map file has an entry for id, and that entry
HasEntry(file, id) == \E i \in 1..Len(file.kv) : int(file.kv[i][1]) = PyInt(id)
EntryOf(file, id) == file.kv[CHOOSE i \in 1..Len(file.kv) : int(file.kv[i][1]) = PyInt(id)][2]

\* the Location an entry v of a location-map file records
Recorded(v) == Location(Path(GetItem(v, "file")), GetItem(v, "pos"), GetItem(v, "includingLoc"))

\* C4: once a location map is loaded and the AST decoded, Locations.get on
\* the id of a decoded node that is a key of the map gives the Location the
\* map records for that id.
C4_IdentityRoundTrip ==
    (loaded # NoFile /\ call.fn = "translate_ast_json")
        => \A id \in DecodedIds :
               HasEntry(loaded, id) => get(_map, id) = Recorded(EntryOf(loaded, id))

\* a map is loaded, the AST is decoded, and a decoded node is looked up
C4_Witness ==
    /\ loaded # NoFile
    /\ call.fn = "translate_ast_json"
    /\ \E id \in DecodedIds :
           HasEntry(loaded, id) /\ get(_map, id) = Recorded(EntryOf(loaded, id))

\* the identifier strings of a node list, in order
Names(nl) == PyList([i \in 1..Len(nl.items) |-> nl.items[i].data])

\* C8: qual_ident_from_node_list on N >= 1 identifier nodes of distinct names
\* returns a QualIdent, Unqualified for N = 1 and Qualified otherwise, and
\* to_ident_list on it gives the names back in order.
C8_QualIdentRoundTrip ==
    (call.fn = "qual_ident_from_node_list" /\ Len(call.arg.items) >= 1)
        => /\ ~IsRaise(ret)
           /\ ret.t = (IF Len(call.arg.items) = 1 THEN "Unqualified" ELSE "Qualified")
           /\ to_ident_list(ret) = Names(call.arg)

\* C9: qual_ident_from_node_list on a list with a non-empty prefix returns a
\* Qualified whose qualifier node has the id of the last node of the prefix,
\* and the counter of fresh ids stays where it was.
C9_IdentityBorrowing ==
    [][(call'.fn = "qual_ident_from_node_list" /\ Len(call'.arg.items) >= 2)
           => /\ ~IsRaise(ret')
              /\ ret'.t = "Qualified"
              /\ ret'.qualifier.t = "AstNode"
              /\ ret'.qualifier._id = call'.arg.items[Len(call'.arg.items) - 1]._id
              /\ _next_id' = _next_id]_vars

BuilderCalls == {"split", "qual_ident_from_node_list", "node_from_node_list"}

\* C10: a builder call on the empty list raises InternalError, and leaves
\* the registry and the counter of fresh ids as they were.
C10_EmptyListRejected ==
    [][(call'.fn \in BuilderCalls /\ call'.arg = PyList(<<>>))
           => /\ Raises(ret', "InternalError")
              /\ _map' = _map
              /\ _next_id' = _next_id]_vars

\* node_from_node_list was called on the empty list, with entries in the
\* registry, and raised InternalError
C10_Witness ==
    /\ call.fn = "node_from_node_list"
    /\ call.arg = PyList(<<>>)
    /\ Raises(ret, "InternalError")
    /\ _map # <<>>

\* C11: Locations.get(id) returns the stored location when the registry holds
\* id and raises InternalError when it does not, and leaves the registry as
\* it was.
C11_GetOrInternalError ==
    [][call'.fn = "get"
           => /\ call'.arg.int \in DOMAIN _map => ret' = _map[call'.arg.int]
              /\ call'.arg.int \notin DOMAIN _map => Raises(ret', "InternalError")
              /\ _map' = _map]_vars

\* get was called for an id the registry lacks while it holds another
C11_Witness ==
    /\ call.fn = "get"
    /\ _map # <<>>
    /\ call.arg.int \notin DOMAIN _map
    /\ Raises(ret, "InternalError")

\* C12: Locations.get_opt(id) never raises, returns None exactly when the
\* registry does not hold id and what Locations.get(id) returns otherwise,
\* and leaves the registry as it was.
C12_GetOptNeverRaises ==
    [][call'.fn = "get_opt"
           => /\ ~IsRaise(ret')
              /\ ret' = None <=> call'.arg.int \notin DOMAIN _map
              /\ call'.arg.int \in DOMAIN _map => ret' = get(_map, call'.arg.int)
              /\ _map' = _map]_vars

\* get_opt was called for an id the registry lacks while it holds another
C12_Witness ==
    /\ call.fn = "get_opt"
    /\ _map # <<>>
    /\ call.arg.int \notin DOMAIN _map
    /\ ret = None

\* C13: after Locations.put(id, loc), get(id) returns loc, whatever id held
\* before, and the entry of every other id is as it was.
C13_PutOverwrites ==
    [][call'.fn = "put"
           => /\ get(_map', call'.arg.tup[1].int) = call'.arg.tup[2]
              /\ \A j \in (DOMAIN _map \cup DOMAIN _map') \ {call'.arg.tup[1].int} :
                     /\ j \in DOMAIN _map
                     /\ j \in DOMAIN _map'
                     /\ _map'[j] = _map[j]]_vars

\* put has overwritten the entry of one id while another id holds a
\* different location
C13_Witness ==
    /\ call.fn = "put"
    /\ DOMAIN _map = 0..MaxId
    /\ \E j \in DOMAIN _map : j # call.arg.tup[1].int /\ _map[j] # call.arg.tup[2]
    /\ _map[call.arg.tup[1].int] = call.arg.tup[2]

\* the fields a location descriptor must have, in the order they are read
RequiredFields == <<"file", "pos", "includingLoc">>

\* a location-map file whose keys are string-encoded ids and whose values
\* are descriptors
IsLocationMap(file) ==
    /\ file.t = "dict"
    /\ \A i \in 1..Len(file.kv) : ~IsRaise(int(file.kv[i][1])) /\ file.kv[i][2].t = "dict"

\* the required fields the descriptor v lacks, as positions of RequiredFields
Missing(v) == {j \in 1..Len(RequiredFields) : ~HasKey(v, RequiredFields[j])}

\* the entries of the file whose descriptor lacks a required field
Lacking(file) == {i \in 1..Len(file.kv) : Missing(file.kv[i][2]) # {}}

\* the first of a non-empty set of positions
First(S) == CHOOSE i \in S : \A j \in S : i <= j

\* C14: the bulk load of a location map stores, for every key, the Location
\* of its descriptor under the integer the key encodes; when a descriptor
\* lacks a required field the load raises an error whose message holds the
\* id of the first such descriptor and the first field it lacks.
C14_BulkLoad ==
    (call.fn = "translate_location_map_json" /\ IsLocationMap(call.arg))
        => IF Lacking(call.arg) = {}
           THEN /\ ~IsRaise(ret)
                /\ \A i \in 1..Len(call.arg.kv) :
                       get(_map, int(call.arg.kv[i][1]).int) = Recorded(call.arg.kv[i][2])
           ELSE LET e == call.arg.kv[First(Lacking(call.arg))]
                IN  ret = Raise("KeyError",
                                "Location map for ID " \o e[1] \o " is missing required field '"
                                    \o RequiredFields[First(Missing(e[2]))] \o "'")

\* a load has failed on the second entry of a file, whose descriptor lacks
\* two fields
C14_Witness ==
    /\ call.fn = "translate_location_map_json"
    /\ IsLocationMap(call.arg)
    /\ Lacking(call.arg) # {}
    /\ First(Lacking(call.arg)) = 2
    /\ Cardinality(Missing(call.arg.kv[2][2])) = 2
    /\ Raises(ret, "KeyError")

\* the AstNodes in a decoded value
RECURSIVE Nodes(_)
Nodes(v) ==
    CASE v.t \in {"None", "str", "int", "bool", "enum", "dict"} -> {}
      [] v.t = "list" -> UNION {Nodes(v.items[i]) : i \in 1..Len(v.items)}
      [] v.t = "tuple" -> UNION {Nodes(v.tup[i]) : i \in 1..Len(v.tup)}
      [] v.t = "AstNode" -> {v} \cup Nodes(v.data)
      [] OTHER -> UNION {Nodes(v[f]) : f \in DOMAIN v \ {"t"}}

\* the nodes translate_ast_json has decoded
Decoded(out) == UNION {Nodes(out[i]) : i \in 1..Len(out)}

\* the ids of the node descriptors in a raw JSON value, one for each descriptor
RECURSIVE RawIds(_)
RECURSIVE RawIdsOfAll(_)
RawIds(v) ==
    CASE v.t = "dict" ->
           (IF HasKey(v, "AstNode") /\ ~IsRaise(GetItem(Lookup(v, "AstNode"), "id"))
            THEN <<GetItem(Lookup(v, "AstNode"), "id")>> ELSE <<>>)
           \o RawIdsOfAll([i \in 1..Len(v.kv) |-> v.kv[i][2]])
      [] v.t = "list" -> RawIdsOfAll(v.items)
      [] OTHER -> <<>>
RawIdsOfAll(vs) == IF vs = <<>> THEN <<>> ELSE RawIds(Head(vs)) \o RawIdsOfAll(Tail(vs))

\* no two node descriptors of the raw value have the same id
DistinctRawIds(v) ==
    \A i, j \in 1..Len(RawIds(v)) : RawIds(v)[i] = RawIds(v)[j] => i = j

\* C15: no two distinct AstNodes of a session have the same identity: the
\* nodes decoded from a file whose descriptors have distinct ids, and a node
\* made by AstNode.create against the nodes decoded before it.
C15_IdentityUnique ==
    [][/\ (call'.fn = "translate_ast_json" /\ DistinctRawIds(call'.arg))
              => \A m, n \in Decoded(printed') : m._id = n._id => m = n
       /\ call'.fn = "create"
              => \A n \in Decoded(printed) : n._id = ret'._id => n = ret']_vars

\* the positions of a sequence of raw member lists (or of one-member lists)
\* whose decoding raises
Failing(vs) == {i \in 1..Len(vs) : IsRaise(Call("translate_module_members", vs[i]))}

\* C16: when the decoding of an element raises, the translation raises the
\* error of the first such element and gives no result for the input:
\* translate_module_members over the members of a list, and
\* translate_ast_json over the top-level entries of a file, which then has
\* emitted nothing, not even for the entries before the failing one.
C16_FailFast ==
    /\ (call.fn = "translate_module_members" /\ call.arg.t = "list")
           => LET ms == [i \in 1..Len(call.arg.items) |-> PyList(<<call.arg.items[i]>>)]
              IN  Failing(ms) # {}
                      => ret = Call("translate_module_members", ms[First(Failing(ms))])
    /\ (call.fn = "translate_ast_json" /\ call.arg.t = "list")
           => LET vs == ast_values(call.arg.items)
              IN  Failing(vs) # {}
                      => /\ ret = Call("translate_module_members", vs[First(Failing(vs))])
                         /\ printed = <<>>

\* the three kinds of error of error.py
Taxonomy == {"InvalidFppToJsonField", "NotSupportedInFppToJsonException", "InternalError"}

\* The errors that do not come from the raise statement of a dispatch branch:
\* those the interpreter raises for a failed subscript, attribute, name,
\* call or conversion, and the FileNotFoundError of the file readers.
InterpreterErrors ==
    {"AttributeError", "FileNotFoundError", "IndexError", "KeyError", "NameError",
     "TypeError", "UnboundLocalError", "ValueError"}

\* C17: an error a decoder raises in a dispatch branch, for a variant key it
\* does not match or does not support, is an InvalidFppToJsonField, a
\* NotSupportedInFppToJsonException or an InternalError.
C17_ClosedTaxonomy ==
    (IsRaise(ret) /\ ret.exc \notin InterpreterErrors) => ret.exc \in Taxonomy

----------------------------------------------------------------------------
(* The session seen from its decodings: what a decoding gave stays on record
   while nodes are created and the registry is written and loaded *)

\* what translate_ast_json was called with, and what it gave, stay on record
KeepDecoded == UNCHANGED <<call, ret, printed, node_list>>

\* AstNode.get_id(), after a decoding
GetIdBetween ==
    /\ _next_id < MaxFresh
    /\ _next_id' = get_id(_next_id).next_id
    /\ UNCHANGED <<_map, loaded>>
    /\ KeepDecoded

\* Locations.put(id, loc), after a decoding
PutBetween ==
    \E id \in 0..MaxId, j \in 1..Len(Locs) :
        /\ _map' = put(_map, id, Locs[j])
        /\ loaded' = NoFile
        /\ UNCHANGED _next_id
        /\ KeepDecoded

\* the location maps loaded here: the scenario's, one that fails and one
\* that loads ids the callers also put
ScenarioMaps == <<ScenarioMap, LocationMapFiles[1], LocationMapFiles[4]>>

\* translate_location_map_json(file), before or after a decoding
LoadBetween ==
    \E i \in 1..Len(ScenarioMaps) :
        LET r == translate_location_map_json(ScenarioMaps[i], _map)
        IN  /\ _map' = r.map
            /\ loaded' = IF IsRaise(r.ret) THEN NoFile ELSE ScenarioMaps[i]
            /\ UNCHANGED _next_id
            /\ KeepDecoded

NextTwice ==
    \/ TranslateAstJson
    \/ GetIdBetween
    \/ PutBetween
    \/ LoadBetween

SpecTwice == Init /\ [][NextTwice]_vars

Only(ms) == Unwrap(ms.items[1]).node

\* C19: with the scenario's location map loaded and the scenario's AST
\* decoded, exactly one member list is decoded, holding the one module M,
\* which holds the one constant of the source, with node id 5 and the
\* ExprLiteralInt 3 as its value; and Locations.get(5) gives file a.fpp at
\* position 1:1.
C19_Scenario ==
    (loaded = ScenarioMap /\ call.fn = "translate_ast_json" /\ call.arg = ScenarioAst)
        => /\ ret = None
           /\ Len(printed) = 1
           /\ printed[1].t = "list" /\ Len(printed[1].items) = 1
           /\ IsAnnotated(printed[1].items[1])
           /\ Only(printed[1]).t = "AstNode"
           /\ Only(printed[1]).data.t = "DefModule"
           /\ Only(printed[1]).data.name = PyStr("M")
           /\ Only(printed[1]).data.members.t = "list"
           /\ Len(Only(printed[1]).data.members.items) = 1
           /\ IsAnnotated(Only(printed[1]).data.members.items[1])
           /\ Only(Only(printed[1]).data.members)
                  = AstNode([t |-> "DefConstant", name |-> PyStr("k"),
                             value |-> AstNode([t |-> "ExprLiteralInt", value |-> PyStr("3")],
                                               PyInt(6))],
                            PyInt(5))
           /\ get(_map, 5) = Location([t |-> "Path", path |-> "a.fpp"], PyStr("1:1"), None)

\* the scenario's map is loaded and the scenario's AST is decoded
C19_Witness ==
    /\ loaded = ScenarioMap
    /\ call.fn = "translate_ast_json"
    /\ call.arg = ScenarioAst
    /\ Decoded(printed) # {}
    /\ 5 \in DOMAIN _map

FileReaders == {"translate_ast_json", "translate_location_map_json"}

\* C20: translate_ast_json and translate_location_map_json, given a path
\* that does not exist, raise FileNotFoundError, decode and emit nothing, and
\* leave the registry and the counter of fresh ids as they were.
C20_MissingFile ==
    [][(call'.fn \in FileReaders /\ call'.arg = NoFile)
           => /\ Raises(ret', "FileNotFoundError")
              /\ printed' = <<>>
              /\ _map' = _map
              /\ _next_id' = _next_id]_vars

\* the location map was read from a path that does not exist, in a session
\* that has locations in the registry and has created nodes
C20_Witness ==
    /\ call.fn = "translate_location_map_json"
    /\ call.arg = NoFile
    /\ Raises(ret, "FileNotFoundError")
    /\ _map # <<>>
    /\ _next_id > 0

----------------------------------------------------------------------------
(* Properties of the decoders as part of a session *)

\* the decoding calls: the decoders, and translate_ast_json which runs them
DecodingCalls == TranslatorCalls \cup {"translate_optional", "translate_ast_json"}

LoadPhase == {"put", "translate_location_map_json"}

IncludeFamilies == {"translate_topology_members", "translate_tlm_packet_set_members"}

\* the raw members of the telemetry packet a packet set element m declares
PacketMembers(m) ==
    LET ms == GetItem(read_data(Sub(GetIndex(GetItem(m, "node"), 1), "SpecTlmPacket", "node")),
                      "members")
    IN  IF ms.t = "list" THEN ms.items ELSE <<>>

\* m is an include specifier of family fn, or a telemetry packet with an
\* include specifier among its members
HoldsInclude(fn, m) ==
    /\ ~IsRaise(VariantKey(fn, m))
    /\ \/ VariantKey(fn, m).str = "SpecInclude"
       \/ /\ fn = "translate_tlm_packet_set_members"
          /\ VariantKey(fn, m).str = "SpecTlmPacket"
          /\ \E j \in 1..Len(PacketMembers(m)) :
                 /\ PacketMembers(m)[j].t = "dict"
                 /\ HasKey(PacketMembers(m)[j], "SpecInclude")

\* C23: a topology or telemetry packet set decoder given a list that holds
\* an include specifier, as a member or as a member of one of its packets,
\* the members before it decoding, raises NotSupportedInFppToJsonException.
C23_IncludeRejected ==
    call.fn \in IncludeFamilies
        => \A i \in 1..Len(RawList(call.fn, call.arg)) :
               (/\ HoldsInclude(call.fn, RawList(call.fn, call.arg)[i])
                /\ ~IsRaise(Call(call.fn, Prefix(call.fn, call.arg, i - 1))))
               => Raises(ret, "NotSupportedInFppToJsonException")

\* The JSON key of every variant of the enumerated kinds, by enum member.
KindKey ==
    [k \in {"SpecCommandKind.ASYNC", "SpecCommandKind.SYNC", "SpecCommandKind.GUARDED",
            "SpecEventSeverity.ACTIVITY_HIGH", "SpecEventSeverity.ACTIVITY_LOW",
            "SpecEventSeverity.COMMAND", "SpecEventSeverity.DIAGNOSTIC",
            "SpecEventSeverity.FATAL", "SpecEventSeverity.WARNING_HIGH",
            "SpecEventSeverity.WARNING_LOW",
            "QueueFull.ASSERT", "QueueFull.BLOCK", "QueueFull.DROP", "QueueFull.HOOK",
            "LimitKind.RED", "LimitKind.ORANGE", "LimitKind.YELLOW",
            "FormalParamKind.REF", "FormalParamKind.VALUE",
            "Visibility.PRIVATE", "Visibility.PUBLIC"} |->
        CASE k = "SpecCommandKind.ASYNC" -> "Async"
          [] k = "SpecCommandKind.SYNC" -> "Sync"
          [] k = "SpecCommandKind.GUARDED" -> "Guarded"
          [] k = "SpecEventSeverity.ACTIVITY_HIGH" -> "ActivityHigh"
          [] k = "SpecEventSeverity.ACTIVITY_LOW" -> "ActivityLow"
          [] k = "SpecEventSeverity.COMMAND" -> "Command"
          [] k = "SpecEventSeverity.DIAGNOSTIC" -> "Diagnostic"
          [] k = "SpecEventSeverity.FATAL" -> "Fatal"
          [] k = "SpecEventSeverity.WARNING_HIGH" -> "WarningHigh"
          [] k = "SpecEventSeverity.WARNING_LOW" -> "WarningLow"
          [] k = "QueueFull.ASSERT" -> "Assert"
          [] k = "QueueFull.BLOCK" -> "Block"
          [] k = "QueueFull.DROP" -> "Drop"
          [] k = "QueueFull.HOOK" -> "Hook"
          [] k = "LimitKind.RED" -> "Red"
          [] k = "LimitKind.ORANGE" -> "Orange"
          [] k = "LimitKind.YELLOW" -> "Yellow"
          [] k = "FormalParamKind.REF" -> "Ref"
          [] k = "FormalParamKind.VALUE" -> "Value"
          [] k = "Visibility.PRIVATE" -> "Private"
          [] k = "Visibility.PUBLIC" -> "Public"]

KindDecoders ==
    {"translate_spec_command_kind", "translate_severity", "translate_queue_full",
     "translate_limit_kind", "formal_param_kind", "visibility_of"}

\* the raw kind object of a call: the limit kind is wrapped in a node
RawKind(fn, arg) == IF fn = "translate_limit_kind" THEN read_data(arg) ELSE arg

\* the enum member a kind decoder returned
KindReturned(fn, r) == IF fn = "translate_limit_kind" THEN DataOf(r) ELSE r

\* C24: a kind decoder that returns a variant was given a raw object that
\* carries that variant's key; given a raw object with none of the family's
\* keys it raises, and maps it to no default variant.
C24_NoSilentDefault ==
    (call.fn \in KindDecoders /\ ~IsRaise(ret))
        => /\ KindReturned(call.fn, ret).t = "enum"
           /\ In(KindKey[KindReturned(call.fn, ret).enum], RawKind(call.fn, call.arg))

\* C25: translate_qual_ident returns a node that carries the descriptor's id
\* and holds an Unqualified or a Qualified identifier, or it raises: it never
\* ends with no node.
C25_QualIdentTyped ==
    call.fn = "translate_qual_ident"
        => \/ IsRaise(ret)
           \/ /\ ret.t = "AstNode"
              /\ ret.data.t \in {"Unqualified", "Qualified"}
              /\ ret._id = read_id(call.arg)

\* The binary operators of the AST model, by their JSON key.
BinopKeys == {"Add", "Sub", "Mul", "Div"}

\* e is a well-formed descriptor of an expression: a node with an id whose
\* data has one variant key of the Expr family, the fields of that variant,
\* and well-formed descriptors for its children.
RECURSIVE WellFormedExpr(_)
WellFormedExpr(e) ==
    /\ ~IsRaise(read_data(e))
    /\ ~IsRaise(read_id(e))
    /\ read_id(e).t = "int"
    /\ read_data(e).t = "dict"
    /\ Len(read_data(e).kv) = 1
    /\ LET k == FirstKey(read_data(e)).str
           f == Lookup(read_data(e), k)
           Has(x) == f.t = "dict" /\ HasKey(f, x)
           Child(x) == Has(x) /\ WellFormedExpr(Lookup(f, x))
       IN  CASE k = "ExprArray" ->
                    /\ Has("elts")
                    /\ Lookup(f, "elts").t = "list"
                    /\ \A i \in 1..Len(Lookup(f, "elts").items) :
                           WellFormedExpr(Lookup(f, "elts").items[i])
             [] k = "ExprBinop" ->
                    /\ Child("e1")
                    /\ Child("e2")
                    /\ Has("op")
                    /\ Lookup(f, "op").t = "dict"
                    /\ \E b \in BinopKeys : HasKey(Lookup(f, "op"), b)
             [] k = "ExprDot" ->
                    /\ Child("e")
                    /\ Has("id")
                    /\ ~IsRaise(Call("translate_ident", Lookup(f, "id")))
             [] k \in {"ExprIdent", "ExprLiteralBool", "ExprLiteralInt",
                       "ExprLiteralFloat", "ExprLiteralString"} -> Has("value")
             [] k = "ExprParen" -> Child("e")
             [] k = "ExprStruct" ->
                    /\ Has("members")
                    /\ Lookup(f, "members").t = "list"
                    /\ \A i \in 1..Len(Lookup(f, "members").items) :
                           LET m == Lookup(f, "members").items[i]
                           IN  /\ ~IsRaise(read_data(m))
                               /\ ~IsRaise(read_id(m))
                               /\ read_data(m).t = "dict"
                               /\ HasKey(read_data(m), "name")
                               /\ HasKey(read_data(m), "value")
                               /\ WellFormedExpr(Lookup(read_data(m), "value"))
             [] k = "ExprUnop" -> Child("e")
             [] OTHER -> FALSE

\* C26: translate_expr on a well-formed descriptor of any variant of the
\* Expr family raises no error and returns a node of that variant with the
\* descriptor's id.
C26_ExprTotal ==
    (call.fn = "translate_expr" /\ WellFormedExpr(call.arg))
        => /\ ~IsRaise(ret)
           /\ ret.t = "AstNode"
           /\ ret.data.t = FirstKey(read_data(call.arg)).str
           /\ ret._id = read_id(call.arg)

\* the argument that holds the raw elements of arg after the first n
Suffix(fn, arg, n) ==
    IF fn = "translate_state_machine_members"
    THEN Some(PyList(SubSeq(RawList(fn, arg), n + 1, Len(RawList(fn, arg)))))
    ELSE PyList(SubSeq(RawList(fn, arg), n + 1, Len(RawList(fn, arg))))

\* a + b for two decoded lists; two values that are not lists have no
\* concatenation
Joined(a, b) ==
    IF a.t = "list" /\ b.t = "list" THEN PyList(a.items \o b.items)
    ELSE Raise("TypeError", "+")

\* the raw constants of the enum definition data
RawConstants(data) ==
    IF data.t = "dict" /\ HasKey(data, "constants") /\ Lookup(data, "constants").t = "list"
    THEN Lookup(data, "constants").items ELSE <<>>

\* the enum definition data with the raw constants cs in place of its own
WithConstants(data, cs) ==
    PyDict([i \in 1..Len(data.kv) |->
               IF data.kv[i][1] = "constants" THEN <<"constants", PyList(cs)>>
               ELSE data.kv[i]])

\* the decoded constants of the enum definition data
Constants(data) ==
    IF IsRaise(translate_def_enum(data, PyInt(0))) THEN translate_def_enum(data, PyInt(0))
    ELSE translate_def_enum(data, PyInt(0)).data.constants

\* the data of the raw member m when m is an enum definition, None otherwise
EnumData(m) ==
    IF /\ ~IsRaise(FirstKey(GetIndex(m, 1)))
       /\ FirstKey(GetIndex(m, 1)).str = "DefEnum"
       /\ ~IsRaise(read_data(Sub(GetIndex(m, 1), "DefEnum", "node")))
    THEN read_data(Sub(GetIndex(m, 1), "DefEnum", "node"))
    ELSE None

\* a list decoder on l1 ++ l2 gives what it gives on l1 followed by what it
\* gives on l2, whenever both decode
MembersIndependent ==
    (/\ call.fn \in ListFamilies
     /\ call.arg = Prefix(call.fn, call.arg, Len(RawList(call.fn, call.arg))))
        => \A i \in 0..Len(RawList(call.fn, call.arg)) :
               (/\ ~IsRaise(Call(call.fn, Prefix(call.fn, call.arg, i)))
                /\ ~IsRaise(Call(call.fn, Suffix(call.fn, call.arg, i))))
               => ret = Joined(Call(call.fn, Prefix(call.fn, call.arg, i)),
                               Call(call.fn, Suffix(call.fn, call.arg, i)))

\* likewise the constants of every enum definition among the members
ConstantsIndependent ==
    call.fn \in {"translate_module_members", "translate_component_members"}
        => \A j \in 1..Len(RawList(call.fn, call.arg)) :
               LET data == EnumData(RawList(call.fn, call.arg)[j])
                   cs == RawConstants(data)
               IN  \A i \in 0..Len(cs) :
                       (/\ data.t = "dict"
                        /\ ~IsRaise(Constants(WithConstants(data, SubSeq(cs, 1, i))))
                        /\ ~IsRaise(Constants(WithConstants(data, SubSeq(cs, i + 1, Len(cs))))))
                       => Constants(data) =
                              Joined(Constants(WithConstants(data, SubSeq(cs, 1, i))),
                                     Constants(WithConstants(data, SubSeq(cs, i + 1, Len(cs)))))

\* C27: every list decoder, the decoder of an enum definition's constants
\* among them, gives on the concatenation of two raw lists that decode
\* without error the concatenation of what it gives on each.
C27_SiblingIndependence == MembersIndependent /\ ConstantsIndependent

----------------------------------------------------------------------------
(* Properties of the fresh identities *)

\* the id a call of get_id or create handed out
IdGiven(fn, r) == IF fn = "create" THEN r._id ELSE r

\* C28: get_id and create hand out the value the counter had before the
\* call and advance the counter by exactly one; every other operation of the
\* session, the decoding with its create_with_id among them, leaves the
\* counter as it was.
C28_FreshMonotonic ==
    [][IF call'.fn \in {"get_id", "create"}
       THEN /\ IdGiven(call'.fn, ret') = PyInt(_next_id)
            /\ _next_id' = _next_id + 1
       ELSE _next_id' = _next_id]_vars

\* a second create: the node carries 1 and the counter stands at 2
C28_Witness ==
    /\ call.fn = "create"
    /\ ret._id = PyInt(1)
    /\ _next_id = 2

----------------------------------------------------------------------------
(* Concurrent calls of get_id and create.

   Each of the threads 1..MaxThreads makes one call. The body of get_id is
   three statements (fpp_ast_node.py lines 18 to 20) and a thread may be
   interrupted between any two of them. Here call.arg holds, by thread, the
   frame of its call: the function called, the statement it stands before
   and its local id0; ret holds by thread what its call returned. *)

Threads == 1..MaxThreads

Idle == [fn |-> "none", pc |-> "idle", id0 |-> None]

Frame(t) == call.arg[t]

InitConcurrent ==
    /\ _map = <<>>
    /\ _next_id = 0
    /\ call = [fn |-> "concurrent", arg |-> [t \in Threads |-> Idle]]
    /\ ret = PyTuple([t \in Threads |-> None])
    /\ node_list = PyList(<<>>)
    /\ printed = <<>>
    /\ loaded = NoFile

\* thread t calls AstNode.get_id(), or AstNode.create(data), which calls it
ThreadCall(t) ==
    /\ Frame(t).pc = "idle"
    /\ \E fn \in {"get_id", "create"} :
           call' = [call EXCEPT !.arg[t] = [fn |-> fn, pc |-> "read", id0 |-> None]]
    /\ UNCHANGED <<_map, _next_id, ret, node_list, printed, loaded>>

\* id0 = cls._next_id
ReadNextId(t) ==
    /\ Frame(t).pc = "read"
    /\ call' = [call EXCEPT !.arg[t].id0 = PyInt(get_id(_next_id).id),
                            !.arg[t].pc = "write"]
    /\ UNCHANGED <<_map, _next_id, ret, node_list, printed, loaded>>

\* cls._next_id = id0 + 1
WriteNextId(t) ==
    /\ Frame(t).pc = "write"
    /\ _next_id' = get_id(Frame(t).id0.int).next_id
    /\ call' = [call EXCEPT !.arg[t].pc = "return"]
    /\ UNCHANGED <<_map, ret, node_list, printed, loaded>>

\* return id0, and in create: return cls(data, id0)
ReturnId(t) ==
    /\ Frame(t).pc = "return"
    /\ ret' = [ret EXCEPT !.tup[t] = IF Frame(t).fn = "create"
                                     THEN AstNode(QualIdents[1], Frame(t).id0)
                                     ELSE Frame(t).id0]
    /\ call' = [call EXCEPT !.arg[t].pc = "done"]
    /\ UNCHANGED <<_map, _next_id, node_list, printed, loaded>>

NextConcurrent ==
    \E t \in Threads :
        \/ ThreadCall(t)
        \/ ReadNextId(t)
        \/ WriteNextId(t)
        \/ ReturnId(t)

SpecConcurrent == InitConcurrent /\ [][NextConcurrent]_vars

\* the threads whose call has returned
Returned == {t \in Threads : Frame(t).pc = "done"}

\* C29: under every interleaving of the statements of concurrent get_id and
\* create calls, no two calls return the same id, and once no call is under
\* way the counter stands at its initial value plus the number of calls made.
C29_DistinctUnderInterleaving ==
    /\ \A s, t \in Returned :
           s # t => IdGiven(Frame(s).fn, ret.tup[s]) # IdGiven(Frame(t).fn, ret.tup[t])
    /\ (\A t \in Threads : Frame(t).pc \in {"idle", "done"})
           => _next_id = Cardinality(Returned)

----------------------------------------------------------------------------
(* The bulk load that fails *)

\* the ids of the first n entries of a location-map file
IdsBefore(file, n) == {int(file.kv[i][1]).int : i \in 1..n}

\* C30: when the bulk load fails on a descriptor that lacks a field, every
\* entry before that descriptor is in the registry with the location loaded
\* from it, the load has added no other id, and the entries the registry
\* held before for other ids are as they were.
C30_LoadNotAtomic ==
    [][(/\ call'.fn = "translate_location_map_json"
        /\ IsLocationMap(call'.arg)
        /\ Lacking(call'.arg) # {})
           => /\ \A i \in 1..(First(Lacking(call'.arg)) - 1) :
                     get(_map', int(call'.arg.kv[i][1]).int) = Recorded(call'.arg.kv[i][2])
              /\ DOMAIN _map' =
                     DOMAIN _map \cup IdsBefore(call'.arg, First(Lacking(call'.arg)) - 1)
              /\ \A id \in DOMAIN _map \ IdsBefore(call'.arg, First(Lacking(call'.arg)) - 1) :
                     _map'[id] = _map[id]]_vars

\* a load has failed on its second entry: the first is in the registry, and
\* the id of the second holds what was put there before the load
C30_Witness ==
    /\ call.fn = "translate_location_map_json"
    /\ IsLocationMap(call.arg)
    /\ Lacking(call.arg) # {}
    /\ First(Lacking(call.arg)) = 2
    /\ Raises(ret, "KeyError")
    /\ get(_map, int(call.arg.kv[1][1]).int) = Recorded(call.arg.kv[1][2])
    /\ int(call.arg.kv[2][1]).int \in DOMAIN _map

====
